---- MODULE Spec2Model ----
(***************************************************************************)
(* PassesPerMinute: the per-match position-interval reconstruction and     *)
(* pass attribution of passes_counter/match_processor.py.                  *)
(*                                                                         *)
(* A player's timeline is a sequence of intervals                          *)
(*   [position, start_time, end_time]   (end_time = None: still open).     *)
(* process_match walks the fetched event list, builds the timelines,       *)
(* finalizes them, attributes the passes and counts the match.             *)
(***************************************************************************)
EXTENDS Integers, Sequences, FiniteSets, TLC

\* ------------------------------------------------------------------ bounds

\* Longest event list process_match is run on.
MaxEvents == 3
\* Largest minute an event carries.
MaxMinute == 2

\* ---------------------------------------------------------------- domains

Players == {1, 2}
Positions == {"CB", "RB"}

\* end_time of an interval that is still open (Python None).
None == -1
\* An event without a "minute" key.
NoMinute == -1
\* An event without a "player" key.
NoPlayer == 0
\* An event without a "position" key.
NoPosition == "-"
\* An event without a "tactics" lineup.
NoLineup == << >>
\* match_end_time when no event gives one.
DefaultMatchEnd == 90

Minutes == 0..MaxMinute
MinuteOpt == Minutes \cup {NoMinute}
PositionOpt == Positions \cup {NoPosition}

\* The lineups of a Starting XI event: player id -> position name.
Lineups == UNION {[S -> Positions] : S \in (SUBSET Players) \ {{}}}

\* ------------------------------------------------------------------ events

Event(t, p, m, pos, l, r) ==
    [type |-> t, player |-> p, minute |-> m, position |-> pos,
     lineup |-> l, replacement |-> r]

\* Starting XI events carry the lineup and no player.
StartingXIEvents ==
    {Event("Starting XI", NoPlayer, m, NoPosition, l, NoPlayer) :
        m \in {NoMinute, 0}, l \in Lineups}

\* Substitution events: player (out), replacement (in), and like every event
\* of a player possibly a position payload.
SubstitutionEvents ==
    {Event("Substitution", e[1], e[3], e[4], NoLineup, e[2]) :
        e \in {x \in Players \X Players \X MinuteOpt \X PositionOpt : x[1] # x[2]}}

\* Pass events, with or without a player.
PassEvents ==
    {Event("Pass", e[1], e[2], e[3], NoLineup, NoPlayer) :
        e \in Players \X MinuteOpt \X PositionOpt}
    \cup {Event("Pass", NoPlayer, m, NoPosition, NoLineup, NoPlayer) : m \in MinuteOpt}

\* Events of any other type, with or without a player.
OtherEvents ==
    {Event("Other", e[1], e[2], e[3], NoLineup, NoPlayer) :
        e \in Players \X MinuteOpt \X PositionOpt}
    \cup {Event("Other", NoPlayer, m, NoPosition, NoLineup, NoPlayer) : m \in MinuteOpt}

EventInputs == StartingXIEvents \cup SubstitutionEvents \cup PassEvents \cup OtherEvents

\* "player" in event
HasPlayer(event) == event.player # NoPlayer

\* event.get("minute", 0)
GetMinute(event) == IF event.minute = NoMinute THEN 0 ELSE event.minute

\* --------------------------------------------------------------- variables

VARIABLES
    events,                   \* the events of the fetched list consumed so far, then all
    player_positions,         \* player id -> timeline (sequence of intervals)
    match_positions,          \* position -> [passes, minutes] (the defaultdict's keys)
    pc,                       \* where process_match stands
    match_counter,            \* MatchProcessor._match_counter
    competition_positions,    \* the total _aggregate_positions accumulates into
    partials,                 \* the stats mappings not yet aggregated
    match_stats,              \* the stats mappings as the matches returned them
    thread_events,            \* thread -> the event list its process_match call fetches
    thread_pc,                \* thread -> where its process_match call stands
    thread_index,             \* thread -> number of events its loop has consumed
    thread_player_positions,  \* thread -> the call's local player_positions
    thread_match_positions,   \* thread -> the call's local match_positions
    counter_lock,             \* MatchProcessor._counter_lock: the thread holding it, or 0
    thread_counter_read,      \* thread -> the _match_counter value its += has loaded
    counter_before,           \* _match_counter before the calls started
    futures,                  \* the futures dict of the drain loop: ids of the futures in it
    future_match,             \* future id -> match id, for every future ever submitted
    future_state,             \* future id -> "running", "ok" or the exception raised, "yielded" once drained
    batch,                    \* futures of the as_completed snapshot not yet yielded
    attempts,                 \* match id -> retries so far (defaultdict(int))
    drain_pc,                 \* where process_competition stands
    drain_error,              \* the exception process_competition raised, or ""
    max_attempts,             \* get_json: the max_attempts argument
    attempt,                  \* get_json: the loop variable, 0 before the first iteration
    responses,                \* get_json: what each s.get issued so far led to, in order
    last_exc,                 \* get_json: the last retryable exception caught, "None" if none
    http_pc,                  \* where get_json stands
    http_result,              \* what get_json returned or raised
    start_year,               \* get_competition_seasons: argument
    end_year,                 \* get_competition_seasons: argument
    target_comp_ids,          \* get_competition_seasons: argument
    competitions,             \* the competition list the API serves
    season_names,             \* get_competition_seasons: the generated names
    competition_seasons,      \* get_competition_seasons: the list built and returned
    seasons_pc,               \* where get_competition_seasons stands
    seasons_error,            \* the exception get_competition_seasons raised, or ""
    positions_data,           \* calculate_average_passes: the argument, in dict order
    summary,                  \* calculate_average_passes: the list built and returned
    average_pc,               \* where calculate_average_passes stands
    tasks_metadata,           \* run: the seasons selected, as season numbers
    season_matches,           \* season -> number of matches the API lists for it
    season_stats,             \* season -> what process_competition returns for it when it returns
    season_state,             \* season -> "running", "ok" or "raised": its process_competition future
    season_counted,           \* season -> process_match calls of the season that returned
    future_to_meta,           \* build_granular_database: seasons as_completed has not yielded yet
    database,                 \* build_granular_database: the entries appended so far
    pipeline_pc,              \* where run stands
    summary_args,             \* the arguments run passes to print_summary, << >> before it
    stored_database,          \* _filter_and_aggregate_database: the database argument
    filter_start_year,        \* _filter_and_aggregate_database: start_year
    filter_end_year,          \* _filter_and_aggregate_database: end_year
    selected_comp_ids,        \* _filter_and_aggregate_database: selected_comp_ids
    aggregated_stats,         \* _filter_and_aggregate_database: the stats accumulated
    processed_count,          \* _filter_and_aggregate_database: the entries counted
    filter_pc,                \* where _filter_and_aggregate_database stands
    _session,                 \* http_client._session: the cached Session, 0 for None
    sessions_created,         \* number of requests.Session() objects created so far
    session_pc,               \* thread -> where its _get_session call stands
    session_local,            \* thread -> the local s of its call, 0 before it is created
    session_returned          \* thread -> what its calls returned, in order

match_vars == <<events, player_positions, match_positions, pc>>
counter_vars == <<match_counter>>
competition_vars == <<competition_positions, partials, match_stats>>
thread_vars == <<thread_events, thread_pc, thread_index, thread_player_positions, thread_match_positions, counter_lock, thread_counter_read, counter_before>>
drain_vars == <<futures, future_match, future_state, batch, attempts, drain_pc, drain_error>>
http_vars == <<max_attempts, attempt, responses, last_exc, http_pc, http_result>>
seasons_vars == <<start_year, end_year, target_comp_ids, competitions, season_names, competition_seasons, seasons_pc, seasons_error>>
average_vars == <<positions_data, summary, average_pc>>
pipeline_vars == <<tasks_metadata, season_matches, season_stats, season_state, season_counted, future_to_meta, database, pipeline_pc, summary_args>>
refilter_vars == <<stored_database, filter_start_year, filter_end_year, selected_comp_ids, aggregated_stats, processed_count, filter_pc>>
session_vars == <<_session, sessions_created, session_pc, session_local, session_returned>>
vars == <<match_vars, counter_vars, competition_vars, thread_vars, drain_vars, http_vars, seasons_vars, average_vars, pipeline_vars, refilter_vars, session_vars>>

\* What the actions of one part leave alone: the variables of the other parts.
outside_match == <<competition_vars, thread_vars, drain_vars, http_vars, seasons_vars, average_vars, pipeline_vars, refilter_vars, session_vars>>
outside_competition == <<match_vars, counter_vars, thread_vars, drain_vars, http_vars, seasons_vars, average_vars, pipeline_vars, refilter_vars, session_vars>>
outside_thread == <<match_vars, competition_vars, drain_vars, http_vars, seasons_vars, average_vars, pipeline_vars, refilter_vars, session_vars>>
outside_drain == <<match_vars, thread_vars, http_vars, seasons_vars, average_vars, pipeline_vars, refilter_vars, session_vars>>
outside_http == <<match_vars, counter_vars, competition_vars, thread_vars, drain_vars, seasons_vars, average_vars, pipeline_vars, refilter_vars, session_vars>>
outside_seasons == <<match_vars, counter_vars, competition_vars, thread_vars, drain_vars, http_vars, average_vars, pipeline_vars, refilter_vars, session_vars>>
outside_average == <<match_vars, counter_vars, competition_vars, thread_vars, drain_vars, http_vars, seasons_vars, pipeline_vars, refilter_vars, session_vars>>
outside_pipeline == <<match_vars, competition_vars, thread_vars, drain_vars, http_vars, seasons_vars, average_vars, refilter_vars, session_vars>>
outside_refilter == <<match_vars, counter_vars, competition_vars, thread_vars, drain_vars, http_vars, seasons_vars, average_vars, pipeline_vars, session_vars>>
outside_session == <<match_vars, counter_vars, competition_vars, thread_vars, drain_vars, http_vars, seasons_vars, average_vars, pipeline_vars, refilter_vars>>

\* ----------------------------------------------------------------- helpers

Interval(pos, s, e) == [position |-> pos, start_time |-> s, end_time |-> e]

Last(s) == s[Len(s)]

\* The empty dict / defaultdict.
EmptyMap == << >>

SetMax(S) == CHOOSE x \in S : \A y \in S : y <= x

\* ------------------------------------------------------- timeline builder

\* A variant that keeps the timeline a lineup player already has (setdefault).
ExtractStartingXIKeepsExisting(event, pp) ==
    [p \in (DOMAIN pp) \cup (DOMAIN event.lineup) |->
        IF p \in DOMAIN pp
        THEN pp[p]
        ELSE <<Interval(event.lineup[p], 0, None)>>]

\* player_positions[player_id] = [{position, 0, None}] for every lineup player.
_extract_starting_xi(event, pp) ==
    [p \in (DOMAIN pp) \cup (DOMAIN event.lineup) |->
        IF p \in DOMAIN event.lineup
        THEN <<Interval(event.lineup[p], 0, None)>>
        ELSE pp[p]]

\* event["minute"] of a substitution without the key raises KeyError.
_handle_substitution_raises(event) == event.minute = NoMinute

\* A variant that opens the replacement's interval at the end of the timeline
\* the replacement already has instead of starting a new one.
HandleSubstitutionKeepsTimeline(event, pp) ==
    LET player_out == event.player
        player_in  == event.replacement
        minute     == event.minute
    IN  IF player_out \notin DOMAIN pp
        THEN pp
        ELSE LET position == Last(pp[player_out]).position
                 closed   == [pp EXCEPT ![player_out][Len(pp[player_out])].end_time = minute]
             IN  [p \in (DOMAIN pp) \cup {player_in} |->
                    IF p = player_in
                    THEN (IF p \in DOMAIN pp THEN closed[p] ELSE << >>)
                            \o <<Interval(position, minute, None)>>
                    ELSE closed[p]]

\* A variant without the safeguard: the replacement of an untracked player is
\* opened in the position the event carries.
HandleSubstitutionOfUntracked(event, pp) ==
    LET player_out == event.player
        player_in  == event.replacement
        minute     == event.minute
    IN  IF player_out \notin DOMAIN pp
        THEN [p \in (DOMAIN pp) \cup {player_in} |->
                IF p = player_in
                THEN <<Interval(event.position, minute, None)>>
                ELSE pp[p]]
        ELSE LET position == Last(pp[player_out]).position
                 closed   == [pp EXCEPT ![player_out][Len(pp[player_out])].end_time = minute]
             IN  [p \in (DOMAIN pp) \cup {player_in} |->
                    IF p = player_in
                    THEN <<Interval(position, minute, None)>>
                    ELSE closed[p]]

_handle_substitution(event, pp) ==
    LET player_out == event.player
        player_in  == event.replacement
        minute     == event.minute
    IN  IF player_out \notin DOMAIN pp
        THEN pp
        ELSE LET position == Last(pp[player_out]).position
                 closed   == [pp EXCEPT ![player_out][Len(pp[player_out])].end_time = minute]
             IN  [p \in (DOMAIN pp) \cup {player_in} |->
                    IF p = player_in
                    THEN <<Interval(position, minute, None)>>
                    ELSE closed[p]]

\* event["minute"] is read once the position payload is there, tracked player or not.
_update_player_positions_raises(event) ==
    event.position # NoPosition /\ event.minute = NoMinute

\* A variant that appends the new interval and leaves the previous one open.
UpdateWithoutClosing(event, pp) ==
    LET player_id == event.player
        position  == event.position
        minute    == event.minute
    IN  IF position = NoPosition
        THEN pp
        ELSE IF player_id \in DOMAIN pp /\ position # Last(pp[player_id]).position
             THEN [pp EXCEPT ![player_id] = Append(@, Interval(position, minute, None))]
             ELSE pp

\* A variant that starts the new interval one minute after the change.
UpdateOpensNextMinute(event, pp) ==
    LET player_id == event.player
        position  == event.position
        minute    == event.minute
    IN  IF position = NoPosition
        THEN pp
        ELSE IF player_id \in DOMAIN pp /\ position # Last(pp[player_id]).position
             THEN [pp EXCEPT ![player_id] =
                      Append([@ EXCEPT ![Len(@)].end_time = minute],
                             Interval(position, minute + 1, None))]
             ELSE pp

\* A variant that assigns the new interval instead of appending it.
UpdateReplacesTimeline(event, pp) ==
    LET player_id == event.player
        position  == event.position
        minute    == event.minute
    IN  IF position = NoPosition
        THEN pp
        ELSE IF player_id \in DOMAIN pp /\ position # Last(pp[player_id]).position
             THEN [pp EXCEPT ![player_id] = <<Interval(position, minute, None)>>]
             ELSE pp

\* A variant that starts a timeline for a player it does not know.
UpdateTracksUnknownPlayer(event, pp) ==
    LET player_id == event.player
        position  == event.position
        minute    == event.minute
    IN  IF position = NoPosition
        THEN pp
        ELSE IF player_id \notin DOMAIN pp
             THEN [p \in (DOMAIN pp) \cup {player_id} |->
                     IF p = player_id
                     THEN <<Interval(position, minute, None)>>
                     ELSE pp[p]]
             ELSE IF position # Last(pp[player_id]).position
                  THEN [pp EXCEPT ![player_id] =
                           Append([@ EXCEPT ![Len(@)].end_time = minute],
                                  Interval(position, minute, None))]
                  ELSE pp

_update_player_positions(event, pp) ==
    LET player_id == event.player
        position  == event.position
        minute    == event.minute
    IN  IF position = NoPosition
        THEN pp
        ELSE IF player_id \in DOMAIN pp /\ position # Last(pp[player_id]).position
             THEN [pp EXCEPT ![player_id] =
                      Append([@ EXCEPT ![Len(@)].end_time = minute],
                             Interval(position, minute, None))]
             ELSE pp

\* ------------------------------------------------------------ finalization

\* A variant that takes the minute of the last event of the list.
MatchEndTimeOfLastEvent(evs) ==
    IF evs # << >> THEN GetMinute(evs[Len(evs)]) ELSE DefaultMatchEnd

\* A variant whose maximum defaults to 0 on an empty list.
MatchEndTimeNoDefault(evs) ==
    IF evs # << >> THEN SetMax({GetMinute(evs[i]) : i \in DOMAIN evs}) ELSE 0

\* A variant that takes the smallest minute of the list.
MatchEndTimeMin(evs) ==
    IF evs # << >>
    THEN -SetMax({-GetMinute(evs[i]) : i \in DOMAIN evs})
    ELSE DefaultMatchEnd

\* The last minute of the match: the maximum of event.get("minute", 0), or 90.
MatchEndTime(evs) ==
    IF evs # << >>
    THEN SetMax({GetMinute(evs[i]) : i \in DOMAIN evs})
    ELSE DefaultMatchEnd

\* A variant that leaves the open interval open.
CloseTimelineKeepsOpen(tl, match_end_time) == tl

\* A still open last interval is closed at the match end.
CloseTimeline(tl, match_end_time) ==
    IF tl # << >> /\ Last(tl).end_time = None
    THEN [tl EXCEPT ![Len(tl)].end_time = match_end_time]
    ELSE tl

\* A variant without the clamp.
MinutesPlayedUnclamped(iv) == iv.end_time - iv.start_time

\* minutes_played of one interval, clamped at 0.
MinutesPlayed(iv) ==
    LET minutes_played == iv.end_time - iv.start_time
    IN  IF minutes_played < 0 THEN 0 ELSE minutes_played

\* match_positions[position][field] += n on a defaultdict: a missing key is
\* created with {"passes": 0, "minutes": 0} first.
AddTo(mp, position, field, n) ==
    LET cur == IF position \in DOMAIN mp THEN mp[position]
               ELSE [passes |-> 0, minutes |-> 0]
    IN  [q \in (DOMAIN mp) \cup {position} |->
            IF q = position THEN [cur EXCEPT ![field] = @ + n] ELSE mp[q]]

RECURSIVE SumTimeline(_, _, _)
SumTimeline(tl, i, mp) ==
    IF i > Len(tl) THEN mp
    ELSE SumTimeline(tl, i + 1, AddTo(mp, tl[i].position, "minutes", MinutesPlayed(tl[i])))

RECURSIVE SumPlayers(_, _, _)
SumPlayers(pp, todo, mp) ==
    IF todo = {} THEN mp
    ELSE LET p == CHOOSE q \in todo : \A r \in todo : q <= r
         IN  SumPlayers(pp, todo \ {p}, SumTimeline(pp[p], 1, mp))

\* _finalize_process: the timelines after it, and match_positions after it.
_finalize_process_timelines(pp, evs) ==
    [p \in DOMAIN pp |-> CloseTimeline(pp[p], MatchEndTime(evs))]

_finalize_process_stats(pp, mp, evs) ==
    SumPlayers(_finalize_process_timelines(pp, evs), DOMAIN pp, mp)

\* -------------------------------------------------------- pass attribution

\* The first interval, in list order, that is closed and has
\* start_time <= minute < end_time; 0 when there is none.
RECURSIVE FindInterval(_, _, _)
FindInterval(tl, i, minute) ==
    IF i > Len(tl) THEN 0
    ELSE IF tl[i].end_time = None THEN FindInterval(tl, i + 1, minute)
    ELSE IF tl[i].start_time <= minute /\ minute < tl[i].end_time THEN i
    ELSE FindInterval(tl, i + 1, minute)

\* A variant without the test of the event type.
AttributeAnyEvent(event, mp, pp) ==
    IF HasPlayer(event) /\ event.player \in DOMAIN pp
    THEN LET k == FindInterval(pp[event.player], 1, GetMinute(event))
         IN  IF k = 0 THEN mp
             ELSE AddTo(mp, pp[event.player][k].position, "passes", 1)
    ELSE mp

\* A variant that counts the minute of the pass as played as well.
AttributePassAndMinute(event, mp, pp) ==
    IF event.type = "Pass" /\ HasPlayer(event) /\ event.player \in DOMAIN pp
    THEN LET k == FindInterval(pp[event.player], 1, GetMinute(event))
         IN  IF k = 0 THEN mp
             ELSE AddTo(AddTo(mp, pp[event.player][k].position, "passes", 1),
                        pp[event.player][k].position, "minutes", 1)
    ELSE mp

\* One iteration of the loop of _aggregate_pass_data.
AttributePass(event, mp, pp) ==
    IF event.type = "Pass" /\ HasPlayer(event) /\ event.player \in DOMAIN pp
    THEN LET k == FindInterval(pp[event.player], 1, GetMinute(event))
         IN  IF k = 0 THEN mp
             ELSE AddTo(mp, pp[event.player][k].position, "passes", 1)
    ELSE mp

RECURSIVE AggregateFrom(_, _, _, _)
AggregateFrom(evs, i, mp, pp) ==
    IF i > Len(evs) THEN mp
    ELSE AggregateFrom(evs, i + 1, AttributePass(evs[i], mp, pp), pp)

_aggregate_pass_data(evs, mp, pp) == AggregateFrom(evs, 1, mp, pp)

\* --------------------------------------------------- _aggregate_positions

\* for position, stats in partial.items():
\*     total[position]["passes"] += ...; total[position]["minutes"] += ...
RECURSIVE AggregateKeys(_, _, _)
AggregateKeys(total, partial, todo) ==
    IF todo = {} THEN total
    ELSE LET position == CHOOSE q \in todo : TRUE
             stats    == partial[position]
         IN  AggregateKeys(
                 AddTo(AddTo(total, position, "passes", stats.passes),
                       position, "minutes", stats.minutes),
                 partial, todo \ {position})

\* A variant that assigns the partial's entry instead of adding it.
AggregatePositionsOverwrites(total, partial) ==
    [q \in (DOMAIN total) \cup (DOMAIN partial) |->
        IF q \in DOMAIN partial THEN partial[q] ELSE total[q]]

_aggregate_positions(total, partial) == AggregateKeys(total, partial, DOMAIN partial)

\* No competition-level accumulation is going on.
NoCompetition ==
    /\ competition_positions = EmptyMap
    /\ partials = << >>
    /\ match_stats = << >>

\* ---------------------------------------------------- parts not running

NoMatch ==
    /\ events = << >>
    /\ player_positions = << >>
    /\ match_positions = << >>
    /\ pc = "idle"

NoCounter ==
    /\ match_counter = 0

NoThreads ==
    /\ thread_events = << >>
    /\ thread_pc = << >>
    /\ thread_index = << >>
    /\ thread_player_positions = << >>
    /\ thread_match_positions = << >>
    /\ counter_lock = 0
    /\ thread_counter_read = << >>
    /\ counter_before = 0

NoDrain ==
    /\ futures = {}
    /\ future_match = << >>
    /\ future_state = << >>
    /\ batch = {}
    /\ attempts = << >>
    /\ drain_pc = "idle"
    /\ drain_error = ""

NoHttp ==
    /\ max_attempts = 0
    /\ attempt = 0
    /\ responses = << >>
    /\ last_exc = "None"
    /\ http_pc = "idle"
    /\ http_result = << >>

NoSeasons ==
    /\ start_year = 0
    /\ end_year = 0
    /\ target_comp_ids = {}
    /\ competitions = << >>
    /\ season_names = << >>
    /\ competition_seasons = << >>
    /\ seasons_pc = "idle"
    /\ seasons_error = ""

NoAverage ==
    /\ positions_data = << >>
    /\ summary = << >>
    /\ average_pc = "idle"

NoPipeline ==
    /\ tasks_metadata = << >>
    /\ season_matches = << >>
    /\ season_stats = << >>
    /\ season_state = << >>
    /\ season_counted = << >>
    /\ future_to_meta = {}
    /\ database = << >>
    /\ pipeline_pc = "idle"
    /\ summary_args = << >>

NoRefilter ==
    /\ stored_database = << >>
    /\ filter_start_year = 0
    /\ filter_end_year = 0
    /\ selected_comp_ids = {}
    /\ aggregated_stats = << >>
    /\ processed_count = 0
    /\ filter_pc = "idle"

NoSession ==
    /\ _session = 0
    /\ sessions_created = 0
    /\ session_pc = << >>
    /\ session_local = << >>
    /\ session_returned = << >>

OutsideMatchIdle ==
    /\ NoCompetition
    /\ NoThreads
    /\ NoDrain
    /\ NoHttp
    /\ NoSeasons
    /\ NoAverage
    /\ NoPipeline
    /\ NoRefilter
    /\ NoSession

OutsideCompetitionIdle ==
    /\ NoMatch
    /\ NoCounter
    /\ NoThreads
    /\ NoDrain
    /\ NoHttp
    /\ NoSeasons
    /\ NoAverage
    /\ NoPipeline
    /\ NoRefilter
    /\ NoSession

OutsideThreadIdle ==
    /\ NoMatch
    /\ NoCompetition
    /\ NoDrain
    /\ NoHttp
    /\ NoSeasons
    /\ NoAverage
    /\ NoPipeline
    /\ NoRefilter
    /\ NoSession

OutsideDrainIdle ==
    /\ NoMatch
    /\ NoThreads
    /\ NoHttp
    /\ NoSeasons
    /\ NoAverage
    /\ NoPipeline
    /\ NoRefilter
    /\ NoSession

OutsideHttpIdle ==
    /\ NoMatch
    /\ NoCounter
    /\ NoCompetition
    /\ NoThreads
    /\ NoDrain
    /\ NoSeasons
    /\ NoAverage
    /\ NoPipeline
    /\ NoRefilter
    /\ NoSession

OutsideSeasonsIdle ==
    /\ NoMatch
    /\ NoCounter
    /\ NoCompetition
    /\ NoThreads
    /\ NoDrain
    /\ NoHttp
    /\ NoAverage
    /\ NoPipeline
    /\ NoRefilter
    /\ NoSession

OutsideAverageIdle ==
    /\ NoMatch
    /\ NoCounter
    /\ NoCompetition
    /\ NoThreads
    /\ NoDrain
    /\ NoHttp
    /\ NoSeasons
    /\ NoPipeline
    /\ NoRefilter
    /\ NoSession

OutsidePipelineIdle ==
    /\ NoMatch
    /\ NoCompetition
    /\ NoThreads
    /\ NoDrain
    /\ NoHttp
    /\ NoSeasons
    /\ NoAverage
    /\ NoRefilter
    /\ NoSession

OutsideRefilterIdle ==
    /\ NoMatch
    /\ NoCounter
    /\ NoCompetition
    /\ NoThreads
    /\ NoDrain
    /\ NoHttp
    /\ NoSeasons
    /\ NoAverage
    /\ NoPipeline
    /\ NoSession

OutsideSessionIdle ==
    /\ NoMatch
    /\ NoCounter
    /\ NoCompetition
    /\ NoThreads
    /\ NoDrain
    /\ NoHttp
    /\ NoSeasons
    /\ NoAverage
    /\ NoPipeline
    /\ NoRefilter

\* ------------------------------------------------------------ process_match

Init ==
    /\ events = << >>
    /\ player_positions = EmptyMap
    /\ match_positions = EmptyMap
    /\ pc = "loop"
    /\ match_counter = 0
    /\ OutsideMatchIdle

\* for event in events: a "Starting XI" event.
LoopStartingXI(event) ==
    /\ pc = "loop"
    /\ Len(events) < MaxEvents
    /\ event.type = "Starting XI"
    /\ events' = Append(events, event)
    /\ player_positions' = _extract_starting_xi(event, player_positions)
    /\ pc' = IF HasPlayer(event) THEN "update" ELSE "loop"
    /\ UNCHANGED <<match_positions, match_counter>>
    /\ UNCHANGED outside_match

\* for event in events: a "Substitution" event.
LoopSubstitution(event) ==
    /\ pc = "loop"
    /\ Len(events) < MaxEvents
    /\ event.type = "Substitution"
    /\ events' = Append(events, event)
    /\ IF _handle_substitution_raises(event)
       THEN /\ pc' = "raised"
            /\ UNCHANGED player_positions
       ELSE /\ player_positions' = _handle_substitution(event, player_positions)
            /\ pc' = IF HasPlayer(event) THEN "update" ELSE "loop"
    /\ UNCHANGED <<match_positions, match_counter>>
    /\ UNCHANGED outside_match

\* A variant that counts a pass while the loop runs, for the position the
\* passer holds at that moment.
LoopOtherAttributesPass(event) ==
    /\ pc = "loop"
    /\ Len(events) < MaxEvents
    /\ event.type \notin {"Starting XI", "Substitution"}
    /\ events' = Append(events, event)
    /\ pc' = IF HasPlayer(event) THEN "update" ELSE "loop"
    /\ match_positions' =
          IF event.type = "Pass" /\ HasPlayer(event) /\ event.player \in DOMAIN player_positions
          THEN AddTo(match_positions, Last(player_positions[event.player]).position, "passes", 1)
          ELSE match_positions
    /\ UNCHANGED <<player_positions, match_counter>>
    /\ UNCHANGED outside_match

\* for event in events: an event of any other type.
LoopOther(event) ==
    /\ pc = "loop"
    /\ Len(events) < MaxEvents
    /\ event.type \notin {"Starting XI", "Substitution"}
    /\ events' = Append(events, event)
    /\ pc' = IF HasPlayer(event) THEN "update" ELSE "loop"
    /\ UNCHANGED <<player_positions, match_positions, match_counter>>
    /\ UNCHANGED outside_match

\* if "player" in event: self._update_player_positions(event, player_positions)
LoopUpdatePositions ==
    /\ pc = "update"
    /\ IF _update_player_positions_raises(Last(events))
       THEN /\ pc' = "raised"
            /\ UNCHANGED player_positions
       ELSE /\ player_positions' = _update_player_positions(Last(events), player_positions)
            /\ pc' = "loop"
    /\ UNCHANGED <<events, match_positions, match_counter>>
    /\ UNCHANGED outside_match

\* The loop is over: self._finalize_process(player_positions, match_positions, events)
FinalizeProcess ==
    /\ pc = "loop"
    /\ player_positions' = _finalize_process_timelines(player_positions, events)
    /\ match_positions' = _finalize_process_stats(player_positions, match_positions, events)
    /\ pc' = "finalized"
    /\ UNCHANGED <<events, match_counter>>
    /\ UNCHANGED outside_match

\* self._aggregate_pass_data(events, match_positions, player_positions)
AggregatePassData ==
    /\ pc = "finalized"
    /\ match_positions' = _aggregate_pass_data(events, match_positions, player_positions)
    /\ pc' = "aggregated"
    /\ UNCHANGED <<events, player_positions, match_counter>>
    /\ UNCHANGED outside_match

\* with self._counter_lock: self._match_counter += 1; return match_positions
IncrementCounter ==
    /\ pc = "aggregated"
    /\ match_counter' = match_counter + 1
    /\ pc' = "done"
    /\ UNCHANGED <<events, player_positions, match_positions>>
    /\ UNCHANGED outside_match

Next ==
    \/ \E event \in StartingXIEvents : LoopStartingXI(event)
    \/ \E event \in SubstitutionEvents : LoopSubstitution(event)
    \/ \E event \in PassEvents \cup OtherEvents : LoopOther(event)
    \/ LoopUpdatePositions
    \/ FinalizeProcess
    \/ AggregatePassData
    \/ IncrementCounter

Spec == Init /\ [][Next]_vars

\* ------------------------------------------- the static methods, called alone

\* Longest timeline handed to _finalize_process directly.
MaxIntervals == 2
\* Longest event list handed to the static methods directly.
MaxStaticEvents == 2

Intervals ==
    {Interval(pos, s, e) : pos \in Positions, s \in Minutes, e \in Minutes \cup {None}}

\* The shape the builder keeps: only the last interval may be open, an interval
\* ends where the next one starts, and a new interval has a new position.
BuilderShaped(tl) ==
    \A i \in 1..(Len(tl) - 1) :
        /\ tl[i].end_time # None
        /\ tl[i].end_time = tl[i + 1].start_time
        /\ tl[i].position # tl[i + 1].position

StaticTimelines ==
    UNION {{tl \in [1..n -> Intervals] : BuilderShaped(tl)} : n \in 1..MaxIntervals}

\* Player 1 has any timeline or none; player 2 is untracked or a lineup player.
StaticPlayerPositions ==
    LET one == {EmptyMap} \cup {(1 :> tl) : tl \in StaticTimelines}
    IN  one \cup {pp @@ (2 :> <<Interval("CB", 0, None)>>) : pp \in one}

StaticEvents ==
    {Event("Pass", 1, m, NoPosition, NoLineup, NoPlayer) : m \in Minutes}
    \cup {Event("Pass", 2, 0, NoPosition, NoLineup, NoPlayer)}
    \cup {Event("Other", NoPlayer, m, NoPosition, NoLineup, NoPlayer) : m \in MinuteOpt}

StaticEventLists ==
    UNION {[1..n -> StaticEvents] : n \in 0..MaxStaticEvents}

\* _finalize_process and then _aggregate_pass_data on timelines and events given
\* directly, as the unit tests call them.
InitStatic ==
    /\ events \in StaticEventLists
    /\ player_positions \in StaticPlayerPositions
    /\ match_positions = EmptyMap
    /\ pc = "loop"
    /\ match_counter = 0
    /\ OutsideMatchIdle

NextStatic ==
    \/ FinalizeProcess
    \/ AggregatePassData

SpecStatic == InitStatic /\ [][NextStatic]_vars

\* ------------------------------------- _aggregate_positions, called alone

\* Most stats mappings combined.
MaxPartials == 3

\* The entries of a per-match stats mapping.
StatEntries ==
    {[passes |-> 0, minutes |-> 0], [passes |-> 1, minutes |-> 2],
     [passes |-> 2, minutes |-> 1]}

\* Per-match stats: any set of position keys, each with passes and minutes.
StatsMappings == UNION {[S -> StatEntries] : S \in SUBSET Positions}

RemoveAt(s, i) == SubSeq(s, 1, i - 1) \o SubSeq(s, i + 1, Len(s))

InitCombine ==
    /\ events = << >>
    /\ player_positions = EmptyMap
    /\ match_positions = EmptyMap
    /\ pc = "combine"
    /\ match_counter = 0
    /\ match_stats \in UNION {[1..n -> StatsMappings] : n \in 0..MaxPartials}
    /\ partials = match_stats
    /\ competition_positions = EmptyMap
    /\ NoThreads
    /\ NoDrain
    /\ NoHttp
    /\ NoSeasons
    /\ NoAverage
    /\ NoPipeline
    /\ NoRefilter
    /\ NoSession

\* _aggregate_positions(competition_positions, match_positions) for any of the
\* stats mappings still to be added.
AggregatePositions(i) ==
    /\ pc = "combine"
    /\ i \in DOMAIN partials
    /\ competition_positions' = _aggregate_positions(competition_positions, partials[i])
    /\ partials' = RemoveAt(partials, i)
    /\ UNCHANGED <<match_stats, outside_competition>>

\* Two of the stats mappings are first accumulated, in this order, into an
\* empty total of their own, which is then a stats mapping to be added.
GroupPartials(i, j) ==
    /\ pc = "combine"
    /\ i \in DOMAIN partials
    /\ j \in DOMAIN partials
    /\ i # j
    /\ LET group == _aggregate_positions(_aggregate_positions(EmptyMap, partials[i]),
                                         partials[j])
           lo == IF i < j THEN i ELSE j
           hi == IF i < j THEN j ELSE i
       IN  partials' = Append(RemoveAt(RemoveAt(partials, hi), lo), group)
    /\ UNCHANGED <<competition_positions, match_stats, outside_competition>>

NextCombine ==
    \/ \E i \in 1..MaxPartials : AggregatePositions(i)
    \/ \E i, j \in 1..MaxPartials : GroupPartials(i, j)

SpecCombine == InitCombine /\ [][NextCombine]_vars

\* ------------------------------- process_match called by several threads

Threads == {1, 2}

\* Longest event list a call fetches.
MaxThreadEvents == 3

\* The events the calls' lists are made of: a lineup, a position change, a
\* pass, and a pass that carries a position and no minute.
ThreadEventInputs ==
    {Event("Starting XI", NoPlayer, 0, NoPosition, (1 :> "CB"), NoPlayer),
     Event("Other", 1, 1, "RB", NoLineup, NoPlayer),
     Event("Pass", 1, 0, NoPosition, NoLineup, NoPlayer),
     Event("Pass", 1, NoMinute, "CB", NoLineup, NoPlayer)}

ThreadEventLists ==
    UNION {[1..n -> ThreadEventInputs] : n \in 0..MaxThreadEvents}

\* One iteration of the loop of process_match raises KeyError.
EventRaises(event) ==
    \/ event.type = "Substitution" /\ _handle_substitution_raises(event)
    \/ HasPlayer(event) /\ _update_player_positions_raises(event)

\* One iteration of the loop of process_match.
ApplyEvent(event, pp) ==
    LET dispatched ==
            IF event.type = "Starting XI" THEN _extract_starting_xi(event, pp)
            ELSE IF event.type = "Substitution" THEN _handle_substitution(event, pp)
            ELSE pp
    IN  IF HasPlayer(event) THEN _update_player_positions(event, dispatched)
        ELSE dispatched

InitThreads ==
    /\ OutsideThreadIdle
    /\ counter_before \in {0, 1}
    /\ match_counter = counter_before
    /\ thread_events \in [Threads -> ThreadEventLists]
    /\ thread_pc = [t \in Threads |-> "fetch"]
    /\ thread_index = [t \in Threads |-> 0]
    /\ thread_player_positions = [t \in Threads |-> EmptyMap]
    /\ thread_match_positions = [t \in Threads |-> EmptyMap]
    /\ counter_lock = 0
    /\ thread_counter_read = [t \in Threads |-> 0]

\* events = get_json(...): the list arrives, or get_json raises.
ThreadFetch(t, ok) ==
    /\ thread_pc[t] = "fetch"
    /\ thread_pc' = [thread_pc EXCEPT ![t] = IF ok THEN "loop" ELSE "raised"]
    /\ UNCHANGED <<thread_events, thread_index, thread_player_positions,
                   thread_match_positions, counter_lock, thread_counter_read,
                   counter_before, match_counter, outside_thread>>

\* A variant that keeps the timeline map in the MatchProcessor, one for all calls.
ThreadLoopShared(t) ==
    /\ thread_pc[t] = "loop"
    /\ thread_index[t] < Len(thread_events[t])
    /\ LET event == thread_events[t][thread_index[t] + 1]
       IN  IF EventRaises(event)
           THEN /\ thread_pc' = [thread_pc EXCEPT ![t] = "raised"]
                /\ UNCHANGED <<thread_index, thread_player_positions>>
           ELSE /\ thread_player_positions' =
                      [u \in Threads |-> ApplyEvent(event, thread_player_positions[t])]
                /\ thread_index' = [thread_index EXCEPT ![t] = @ + 1]
                /\ UNCHANGED thread_pc
    /\ UNCHANGED <<thread_events, thread_match_positions, counter_lock,
                   thread_counter_read, counter_before, match_counter, outside_thread>>

\* for event in events: one iteration on the call's own player_positions.
ThreadLoop(t) ==
    /\ thread_pc[t] = "loop"
    /\ thread_index[t] < Len(thread_events[t])
    /\ LET event == thread_events[t][thread_index[t] + 1]
       IN  IF EventRaises(event)
           THEN /\ thread_pc' = [thread_pc EXCEPT ![t] = "raised"]
                /\ UNCHANGED <<thread_index, thread_player_positions>>
           ELSE /\ thread_player_positions' =
                      [thread_player_positions EXCEPT ![t] = ApplyEvent(event, @)]
                /\ thread_index' = [thread_index EXCEPT ![t] = @ + 1]
                /\ UNCHANGED thread_pc
    /\ UNCHANGED <<thread_events, thread_match_positions, counter_lock,
                   thread_counter_read, counter_before, match_counter, outside_thread>>

\* self._finalize_process(player_positions, match_positions, events)
ThreadFinalize(t) ==
    /\ thread_pc[t] = "loop"
    /\ thread_index[t] = Len(thread_events[t])
    /\ thread_player_positions' = [thread_player_positions EXCEPT ![t] =
          _finalize_process_timelines(@, thread_events[t])]
    /\ thread_match_positions' = [thread_match_positions EXCEPT ![t] =
          _finalize_process_stats(thread_player_positions[t], @, thread_events[t])]
    /\ thread_pc' = [thread_pc EXCEPT ![t] = "finalized"]
    /\ UNCHANGED <<thread_events, thread_index, counter_lock, thread_counter_read,
                   counter_before, match_counter, outside_thread>>

\* self._aggregate_pass_data(events, match_positions, player_positions)
ThreadAggregate(t) ==
    /\ thread_pc[t] = "finalized"
    /\ thread_match_positions' = [thread_match_positions EXCEPT ![t] =
          _aggregate_pass_data(thread_events[t], @, thread_player_positions[t])]
    /\ thread_pc' = [thread_pc EXCEPT ![t] = "lock"]
    /\ UNCHANGED <<thread_events, thread_index, thread_player_positions, counter_lock,
                   thread_counter_read, counter_before, match_counter, outside_thread>>

\* A variant that enters the block without taking the lock.
ThreadAcquireNoLock(t) ==
    /\ thread_pc[t] = "lock"
    /\ thread_pc' = [thread_pc EXCEPT ![t] = "load"]
    /\ UNCHANGED <<thread_events, thread_index, thread_player_positions,
                   thread_match_positions, counter_lock, thread_counter_read,
                   counter_before, match_counter, outside_thread>>

\* with self._counter_lock: the lock is taken when it is free.
ThreadAcquire(t) ==
    /\ thread_pc[t] = "lock"
    /\ counter_lock = 0
    /\ counter_lock' = t
    /\ thread_pc' = [thread_pc EXCEPT ![t] = "load"]
    /\ UNCHANGED <<thread_events, thread_index, thread_player_positions,
                   thread_match_positions, thread_counter_read, counter_before,
                   match_counter, outside_thread>>

\* self._match_counter += 1 loads the attribute ...
ThreadLoadCounter(t) ==
    /\ thread_pc[t] = "load"
    /\ thread_counter_read' = [thread_counter_read EXCEPT ![t] = match_counter]
    /\ thread_pc' = [thread_pc EXCEPT ![t] = "store"]
    /\ UNCHANGED <<thread_events, thread_index, thread_player_positions,
                   thread_match_positions, counter_lock, counter_before,
                   match_counter, outside_thread>>

\* ... and stores the sum.
ThreadStoreCounter(t) ==
    /\ thread_pc[t] = "store"
    /\ match_counter' = thread_counter_read[t] + 1
    /\ thread_pc' = [thread_pc EXCEPT ![t] = "unlock"]
    /\ UNCHANGED <<thread_events, thread_index, thread_player_positions,
                   thread_match_positions, counter_lock, thread_counter_read,
                   counter_before, outside_thread>>

\* The with block ends, return match_positions.
ThreadRelease(t) ==
    /\ thread_pc[t] = "unlock"
    /\ counter_lock' = IF counter_lock = t THEN 0 ELSE counter_lock
    /\ thread_pc' = [thread_pc EXCEPT ![t] = "returned"]
    /\ UNCHANGED <<thread_events, thread_index, thread_player_positions,
                   thread_match_positions, thread_counter_read, counter_before,
                   match_counter, outside_thread>>

NextThreads ==
    \E t \in Threads :
        \/ \E ok \in BOOLEAN : ThreadFetch(t, ok)
        \/ ThreadLoop(t)
        \/ ThreadFinalize(t)
        \/ ThreadAggregate(t)
        \/ ThreadAcquire(t)
        \/ ThreadLoadCounter(t)
        \/ ThreadStoreCounter(t)
        \/ ThreadRelease(t)

SpecThreads == InitThreads /\ [][NextThreads]_vars

\* ------------------------------------------------------ process_competition

MAX_MATCH_RETRIES == 3

\* Most matches of a competition.
MaxMatches == 2

\* What a process_match call can raise: the exceptions the drain loop retries
\* on, and one it does not expect.
RetryableErrors == {"ValueError", "KeyError", "TypeError", "ConnectionError"}
UnexpectedErrors == {"RuntimeError"}
FutureOutcomes == {"ok"} \cup RetryableErrors \cup UnexpectedErrors

\* The stats a match of the competition yields when its processing succeeds.
DrainStats ==
    {f \in StatsMappings : \A pos \in DOMAIN f : f[pos] # [passes |-> 0, minutes |-> 0]}

\* attempts[match_id] of a defaultdict(int)
GetAttempts(a, match_id) == IF match_id \in DOMAIN a THEN a[match_id] ELSE 0

\* A variant without a budget: every failure is retried.
RetriesWithoutBudget(a, match_id) == GetAttempts(a, match_id) >= 0

\* A variant that compares with <=.
RetriesWhileAtMost(a, match_id) == GetAttempts(a, match_id) <= MAX_MATCH_RETRIES

\* if attempts[match_id] < MAX_MATCH_RETRIES
_handle_error_or_retry_resubmits(a, match_id) ==
    GetAttempts(a, match_id) < MAX_MATCH_RETRIES

\* The competition has matches 1..Len(match_stats); match_stats[m] is what
\* process_match returns for match m.
InitDrain ==
    /\ OutsideDrainIdle
    /\ match_counter = 0
    /\ competition_positions = EmptyMap
    /\ partials = << >>
    /\ match_stats \in UNION {[1..n -> DrainStats] : n \in 0..MaxMatches}
    /\ futures = {}
    /\ future_match = << >>
    /\ future_state = << >>
    /\ batch = {}
    /\ attempts = EmptyMap
    /\ drain_pc = "fetch"
    /\ drain_error = ""

\* matches = _fetch_matches(...): the list arrives or the error is re-raised.
FetchMatches(ok) ==
    /\ drain_pc = "fetch"
    /\ drain_pc' = IF ok THEN "submit" ELSE "raised"
    /\ drain_error' = IF ok THEN "" ELSE "RuntimeError: HTTP GET failed"
    /\ UNCHANGED <<futures, future_match, future_state, batch, attempts,
                   competition_vars, match_counter, outside_drain>>

\* futures = _submit_all_tasks(executor, match_ids)
SubmitAllTasks ==
    /\ drain_pc = "submit"
    /\ future_match' = [f \in 1..Len(match_stats) |-> f]
    /\ future_state' = [f \in 1..Len(match_stats) |-> "running"]
    /\ futures' = 1..Len(match_stats)
    /\ drain_pc' = "while"
    /\ UNCHANGED <<batch, attempts, drain_error, competition_vars, match_counter,
                   outside_drain>>

\* A worker thread finishes MATCH_PROCESSOR.process_match(match_id): it returns
\* the stats (and has counted the match) or raises.
FutureCompletes(f, outcome) ==
    /\ f \in DOMAIN future_state
    /\ future_state[f] = "running"
    /\ future_state' = [future_state EXCEPT ![f] = outcome]
    /\ match_counter' = IF outcome = "ok" THEN match_counter + 1 ELSE match_counter
    /\ UNCHANGED <<futures, future_match, batch, attempts, drain_pc, drain_error,
                   competition_vars, outside_drain>>

\* A variant that makes one pass only: "if futures" instead of "while futures".
DrainWhileSinglePass ==
    /\ drain_pc = "while"
    /\ IF futures = {} \/ Len(future_match) > Len(match_stats)
       THEN /\ drain_pc' = "returned"
            /\ UNCHANGED batch
       ELSE /\ batch' = futures
            /\ drain_pc' = "for"
    /\ UNCHANGED <<futures, future_match, future_state, attempts, drain_error,
                   competition_vars, match_counter, outside_drain>>

\* while futures: for future in as_completed(list(futures.keys())):
DrainWhile ==
    /\ drain_pc = "while"
    /\ IF futures = {}
       THEN /\ drain_pc' = "returned"
            /\ UNCHANGED batch
       ELSE /\ batch' = futures
            /\ drain_pc' = "for"
    /\ UNCHANGED <<futures, future_match, future_state, attempts, drain_error,
                   competition_vars, match_counter, outside_drain>>

\* as_completed yields a finished future of the snapshot: the body of the for
\* loop, with _aggregate_positions or _handle_error_or_retry.
DrainNext(f) ==
    /\ drain_pc = "for"
    /\ f \in batch
    /\ future_state[f] # "running"
    /\ batch' = batch \ {f}
    /\ LET match_id == future_match[f]
           new      == Len(future_match) + 1
           yielded  == [future_state EXCEPT ![f] = "yielded"]
       IN  \/ /\ future_state[f] = "ok"
              /\ competition_positions' =
                    _aggregate_positions(competition_positions, match_stats[match_id])
              /\ futures' = futures \ {f}
              /\ future_state' = yielded
              /\ UNCHANGED <<future_match, attempts, drain_pc, drain_error>>
           \/ /\ future_state[f] \in RetryableErrors
              /\ IF _handle_error_or_retry_resubmits(attempts, match_id)
                 THEN /\ attempts' =
                            [m \in (DOMAIN attempts) \cup {match_id} |->
                                IF m = match_id THEN GetAttempts(attempts, m) + 1
                                ELSE attempts[m]]
                      /\ future_match' = Append(future_match, match_id)
                      /\ future_state' = Append(yielded, "running")
                      /\ futures' = (futures \ {f}) \cup {new}
                      /\ UNCHANGED <<drain_pc, drain_error>>
                 ELSE /\ drain_pc' = "raised"
                      /\ drain_error' = "RuntimeError: Failed to process match"
                      /\ futures' = futures \ {f}
                      /\ future_state' = yielded
                      /\ UNCHANGED <<attempts, future_match>>
              /\ UNCHANGED competition_positions
           \/ /\ future_state[f] \in UnexpectedErrors
              /\ drain_pc' = "raised"
              /\ drain_error' = future_state[f]
              /\ futures' = futures \ {f}
              /\ future_state' = yielded
              /\ UNCHANGED <<attempts, future_match, competition_positions>>
    /\ UNCHANGED <<partials, match_stats, match_counter, outside_drain>>

\* A variant that goes on with the loop after an error was raised.
DrainForEndSwallowsError ==
    /\ drain_pc \in {"for", "raised"}
    /\ drain_pc = "for" => batch = {}
    /\ drain_pc' = "while"
    /\ UNCHANGED <<futures, future_match, future_state, batch, attempts, drain_error,
                   competition_vars, match_counter, outside_drain>>

\* The snapshot is used up: back to the test of the while loop.
DrainForEnd ==
    /\ drain_pc = "for"
    /\ batch = {}
    /\ drain_pc' = "while"
    /\ UNCHANGED <<futures, future_match, future_state, batch, attempts, drain_error,
                   competition_vars, match_counter, outside_drain>>

NextDrain ==
    \/ \E ok \in BOOLEAN : FetchMatches(ok)
    \/ SubmitAllTasks
    \/ \E f \in 1..(MaxMatches * (MAX_MATCH_RETRIES + 1)) :
          \E outcome \in FutureOutcomes : FutureCompletes(f, outcome)
    \/ DrainWhile
    \/ \E f \in 1..(MaxMatches * (MAX_MATCH_RETRIES + 1)) : DrainNext(f)
    \/ DrainForEnd

SpecDrain == InitDrain /\ [][NextDrain]_vars

\* The same with the scheduling the code relies on: every process_match call
\* submitted to the pool completes, and the thread running the drain loop goes on.
SpecDrainFair ==
    /\ InitDrain
    /\ [][NextDrain]_vars
    /\ \A f \in 1..(MaxMatches * (MAX_MATCH_RETRIES + 1)) :
          WF_vars(\E outcome \in FutureOutcomes : FutureCompletes(f, outcome))
    /\ WF_vars(FetchMatches(TRUE) \/ FetchMatches(FALSE))
    /\ WF_vars(SubmitAllTasks)
    /\ WF_vars(DrainWhile)
    /\ WF_vars(\E f \in 1..(MaxMatches * (MAX_MATCH_RETRIES + 1)) : DrainNext(f))
    /\ WF_vars(DrainForEnd)

\* ------------------------------------------------------------------ get_json
\* http_client.get_json: up to max_attempts GET requests on the shared session,
\* one after another, each followed by raise_for_status and json().

MaxAttempts == 3

RetryableHttpErrors == {"ChunkedEncodingError", "ConnectionError", "ReadTimeout", "HTTPError"}

\* The bodies a successful response may carry, already parsed.
JsonBodies == {"[]", "[{}]"}

\* What one s.get can lead to: a response whose JSON parses, one of the
\* exceptions the loop catches, or a response whose body is not JSON.
Http_Ok(body) == <<"ok", body>>
Http_Fails(kind) == <<"raises", kind>>
HttpOutcomes ==
    {Http_Ok(b) : b \in JsonBodies}
        \cup {Http_Fails(k) : k \in RetryableHttpErrors \cup {"JSONDecodeError"}}

\* f"HTTP GET failed after {max_attempts} attempts", raised from last_exc.
HttpGetFailed(n, cause) ==
    <<"raised", "RuntimeError", <<"HTTP GET failed after ", n, " attempts">>, cause>>

InitHttp ==
    /\ OutsideHttpIdle
    /\ match_counter = 0
    /\ max_attempts \in 0..MaxAttempts
    /\ attempt = 0
    /\ responses = << >>
    /\ last_exc = "None"
    /\ http_pc = "loop"
    /\ http_result = << >>

\* The except clause that forgets every exception but the first.
GetJsonAttemptKeepsFirst(outcome) ==
    /\ http_pc = "loop"
    /\ attempt < max_attempts
    /\ attempt' = attempt + 1
    /\ responses' = Append(responses, outcome)
    /\ IF outcome[1] = "ok"
       THEN /\ http_pc' = "returned"
            /\ http_result' = <<"returned", outcome[2]>>
            /\ UNCHANGED last_exc
       ELSE IF outcome[2] \in RetryableHttpErrors
       THEN /\ last_exc' = IF last_exc = "None" THEN outcome[2] ELSE last_exc
            /\ UNCHANGED <<http_pc, http_result>>
       ELSE /\ http_pc' = "raised"
            /\ http_result' = <<"raised", outcome[2], << >>, "None">>
            /\ UNCHANGED last_exc
    /\ UNCHANGED <<max_attempts, outside_http>>

\* One iteration of the for loop: the request, raise_for_status, json().
GetJsonAttempt(outcome) ==
    /\ http_pc = "loop"
    /\ attempt < max_attempts
    /\ attempt' = attempt + 1
    /\ responses' = Append(responses, outcome)
    /\ IF outcome[1] = "ok"
       THEN /\ http_pc' = "returned"
            /\ http_result' = <<"returned", outcome[2]>>
            /\ UNCHANGED last_exc
       ELSE IF outcome[2] \in RetryableHttpErrors
       THEN /\ last_exc' = outcome[2]
            /\ UNCHANGED <<http_pc, http_result>>
       ELSE /\ http_pc' = "raised"
            /\ http_result' = <<"raised", outcome[2], << >>, "None">>
            /\ UNCHANGED last_exc
    /\ UNCHANGED <<max_attempts, outside_http>>

\* The loop is over without a return: raise RuntimeError from last_exc.
GetJsonExhausted ==
    /\ http_pc = "loop"
    /\ attempt = max_attempts
    /\ http_pc' = "raised"
    /\ http_result' = HttpGetFailed(max_attempts, last_exc)
    /\ UNCHANGED <<max_attempts, attempt, responses, last_exc, outside_http>>

NextHttp ==
    \/ \E outcome \in HttpOutcomes : GetJsonAttempt(outcome)
    \/ GetJsonExhausted

SpecHttp == InitHttp /\ [][NextHttp]_vars

\* --------------------------------------------------- get_competition_seasons
\* competition_manager: the season names of a range of years, and the filter
\* of the fetched competition list by competition id and season name.
\* Strings are sequences of characters.

FirstYear == 8
MaxYearSpan == 3
MaxCompetitions == 2

Years == FirstYear..(FirstYear + MaxYearSpan)

Digits == <<"0", "1", "2", "3", "4", "5", "6", "7", "8", "9">>

\* str(year), for year >= 0.
RECURSIVE str(_)
str(n) == IF n < 10 THEN <<Digits[n + 1]>>
          ELSE str(n \div 10) \o <<Digits[(n % 10) + 1]>>

\* f"{year}/{year + 1}"
SeasonFormat(year) == str(year) \o <<"/">> \o str(year + 1)

\* range(a, b) as a sequence.
Range(a, b) == [i \in 1..(IF b > a THEN b - a ELSE 0) |-> a + i - 1]

\* The range that stops one year early.
GenerateSeasonsWithoutEndYear(start, end) ==
    [i \in DOMAIN Range(start, end) |-> SeasonFormat(Range(start, end)[i])]
        \o [i \in DOMAIN Range(start, end) |-> str(Range(start, end)[i])]

_generate_seasons_and_years(start, end) ==
    [i \in DOMAIN Range(start, end + 1) |-> SeasonFormat(Range(start, end + 1)[i])]
        \o [i \in DOMAIN Range(start, end + 1) |-> str(Range(start, end + 1)[i])]

\* x in names, for a tuple of names.
InTuple(x, names) == \E i \in DOMAIN names : names[i] = x

\* The for loop of get_competition_seasons over the first n competitions.
RECURSIVE Filtered(_, _, _, _)
Filtered(all_competitions, n, ids, names) ==
    IF n = 0 THEN << >>
    ELSE LET comp == all_competitions[n]
             before == Filtered(all_competitions, n - 1, ids, names)
         IN  IF comp.competition_id \in ids /\ InTuple(comp.season_name, names)
             THEN Append(before, <<comp.competition_id, comp.season_id>>)
             ELSE before

\* The season names the served list may carry: a year, or two years around a
\* slash, consecutive or not.
SeasonNameInputs ==
    {str(y) : y \in Years}
        \cup {str(y) \o <<"/">> \o str(z) : y \in Years, z \in Years \cup {FirstYear + MaxYearSpan + 1}}

CompetitionInputs ==
    [competition_id : {1, 2}, season_id : {41, 42}, season_name : SeasonNameInputs]

InitSeasons ==
    /\ OutsideSeasonsIdle
    /\ match_counter = 0
    /\ start_year \in Years
    /\ end_year \in Years
    /\ target_comp_ids \in {{}, {1}, {1, 2}}
    /\ competitions \in UNION {[1..n -> CompetitionInputs] : n \in 0..MaxCompetitions}
    /\ season_names = << >>
    /\ competition_seasons = << >>
    /\ seasons_pc = "start"
    /\ seasons_error = ""

GenerateSeasons ==
    /\ seasons_pc = "start"
    /\ season_names' = _generate_seasons_and_years(start_year, end_year)
    /\ seasons_pc' = "fetch"
    /\ UNCHANGED <<start_year, end_year, target_comp_ids, competitions,
                   competition_seasons, seasons_error, outside_seasons>>

\* fetch_competitions returns the list, or get_json raised and it re-raises.
FetchCompetitions(ok) ==
    /\ seasons_pc = "fetch"
    /\ IF ok
       THEN seasons_pc' = "filter" /\ UNCHANGED seasons_error
       ELSE seasons_pc' = "raised" /\ seasons_error' = "RuntimeError"
    /\ UNCHANGED <<start_year, end_year, target_comp_ids, competitions,
                   season_names, competition_seasons, outside_seasons>>

FilterCompetitions ==
    /\ seasons_pc = "filter"
    /\ competition_seasons' =
          Filtered(competitions, Len(competitions), target_comp_ids, season_names)
    /\ seasons_pc' = "returned"
    /\ UNCHANGED <<start_year, end_year, target_comp_ids, competitions,
                   season_names, seasons_error, outside_seasons>>

NextSeasons ==
    \/ GenerateSeasons
    \/ \E ok \in BOOLEAN : FetchCompetitions(ok)
    \/ FilterCompetitions

SpecSeasons == InitSeasons /\ [][NextSeasons]_vars

\* -------------------------------------------------- calculate_average_passes
\* player_position_stats.calculate_average_passes: one (position, value) per
\* position of the argument, sorted by value, largest first.  A value is the
\* quotient in lowest terms, <<numerator, denominator>>; 0 is <<0, 1>>.

MaxPositions == 3
MaxPasses == 2
MaxPlayed == 2

AveragePositions == {"GK", "CB", "ST"}

RECURSIVE Gcd(_, _)
Gcd(a, b) == IF b = 0 THEN a ELSE Gcd(b, a % b)

\* passes / minutes, for minutes > 0.
Divide(passes, minutes) ==
    <<passes \div Gcd(passes, minutes), minutes \div Gcd(passes, minutes)>>

\* l.24-27
AverageValue(stats) ==
    IF stats.minutes > 0 THEN Divide(stats.passes, stats.minutes) ELSE <<0, 1>>

\* v < w for two values.
LessThan(v, w) == v[1] * w[2] < w[1] * v[2]

\* The sort that puts the smallest value first.
RECURSIVE SortedAscending(_)
SortedAscending(list) ==
    IF list = << >> THEN << >>
    ELSE LET rest == SortedAscending(SubSeq(list, 1, Len(list) - 1))
             x == list[Len(list)]
             k == Cardinality({i \in DOMAIN rest : ~LessThan(x[2], rest[i][2])})
         IN  SubSeq(rest, 1, k) \o <<x>> \o SubSeq(rest, k + 1, Len(rest))

\* sorted(list, key=value, reverse=True): stable, equal values keep their order.
RECURSIVE SortedDescending(_)
SortedDescending(list) ==
    IF list = << >> THEN << >>
    ELSE LET rest == SortedDescending(SubSeq(list, 1, Len(list) - 1))
             x == list[Len(list)]
             k == Cardinality({i \in DOMAIN rest : ~LessThan(rest[i][2], x[2])})
         IN  SubSeq(rest, 1, k) \o <<x>> \o SubSeq(rest, k + 1, Len(rest))

\* The items of a dict: no position twice.
PositionsDataInputs ==
    {d \in UNION {[1..n -> [position : AveragePositions,
                            passes : 0..MaxPasses,
                            minutes : 0..MaxPlayed]] : n \in 0..MaxPositions} :
        \A i, j \in DOMAIN d : d[i].position = d[j].position => i = j}

InitAverage ==
    /\ OutsideAverageIdle
    /\ match_counter = 0
    /\ positions_data \in PositionsDataInputs
    /\ summary = << >>
    /\ average_pc = "loop"

\* One iteration of the for loop.
AverageLoop ==
    /\ average_pc = "loop"
    /\ Len(summary) < Len(positions_data)
    /\ LET stats == positions_data[Len(summary) + 1]
       IN  summary' = Append(summary, <<stats.position, AverageValue(stats)>>)
    /\ UNCHANGED <<positions_data, average_pc, outside_average>>

AverageReturn ==
    /\ average_pc = "loop"
    /\ Len(summary) = Len(positions_data)
    /\ summary' = SortedDescending(summary)
    /\ average_pc' = "returned"
    /\ UNCHANGED <<positions_data, outside_average>>

NextAverage ==
    \/ AverageLoop
    \/ AverageReturn

SpecAverage == InitAverage /\ [][NextAverage]_vars

\* ---------------------------------------------------------------------- run
\* app.run after the seasons were selected: build_granular_database runs
\* process_competition for every season on a pool of four threads, the
\* database is aggregated and the summary printed.  A season is seen from
\* outside: its process_match calls return one by one, each counting on the
\* process-wide counter, and its process_competition returns once all have
\* returned, or raises.

MaxSeasons == 2
MaxSeasonMatches == 2

SeasonStatsInputs ==
    {[q \in {"CB"} |-> [passes |-> 1, minutes |-> 2]],
     [q \in {"CB", "RB"} |-> [passes |-> 2, minutes |-> 2]]}

\* l.137-141: the same accumulation as _aggregate_positions, entry by entry.
RECURSIVE aggregate_statistics(_)
aggregate_statistics(db) ==
    IF db = << >> THEN EmptyMap
    ELSE _aggregate_positions(aggregate_statistics(SubSeq(db, 1, Len(db) - 1)),
                              db[Len(db)].stats)

InitPipeline ==
    /\ OutsidePipelineIdle
    /\ match_counter = 0
    /\ \E n \in 0..MaxSeasons :
          /\ tasks_metadata = [s \in 1..n |-> s]
          /\ season_matches \in [1..n -> 0..MaxSeasonMatches]
          /\ season_stats \in [1..n -> SeasonStatsInputs \cup {EmptyMap}]
          /\ \A s \in 1..n : season_matches[s] = 0 <=> season_stats[s] = EmptyMap
          /\ season_state = [s \in 1..n |-> "pending"]
          /\ season_counted = [s \in 1..n |-> 0]
    /\ future_to_meta = {}
    /\ database = << >>
    /\ pipeline_pc = "start"
    /\ summary_args = << >>

\* if not tasks_metadata: return 1
RunNoSeasons ==
    /\ pipeline_pc = "start"
    /\ tasks_metadata = << >>
    /\ pipeline_pc' = "exit1"
    /\ UNCHANGED <<tasks_metadata, season_matches, season_stats, season_state,
                   season_counted, future_to_meta, database, summary_args,
                   match_counter, outside_pipeline>>

\* future_to_meta = {executor.submit(process_competition, ...): t for t in tasks_metadata}
SubmitSeasons ==
    /\ pipeline_pc = "start"
    /\ tasks_metadata # << >>
    /\ season_state' = [s \in DOMAIN season_state |-> "running"]
    /\ future_to_meta' = {tasks_metadata[i] : i \in DOMAIN tasks_metadata}
    /\ pipeline_pc' = "collect"
    /\ UNCHANGED <<tasks_metadata, season_matches, season_stats, season_counted,
                   database, summary_args, match_counter, outside_pipeline>>

\* A process_match call of season s returns: the match is counted.
SeasonMatchProcessed(s) ==
    /\ s \in DOMAIN season_state
    /\ season_state[s] = "running"
    /\ season_counted[s] < season_matches[s]
    /\ season_counted' = [season_counted EXCEPT ![s] = @ + 1]
    /\ match_counter' = match_counter + 1
    /\ UNCHANGED <<tasks_metadata, season_matches, season_stats, season_state,
                   future_to_meta, database, pipeline_pc, summary_args,
                   outside_pipeline>>

\* process_competition of season s returns: all its matches were processed.
SeasonReturns(s) ==
    /\ s \in DOMAIN season_state
    /\ season_state[s] = "running"
    /\ season_counted[s] = season_matches[s]
    /\ season_state' = [season_state EXCEPT ![s] = "ok"]
    /\ UNCHANGED <<tasks_metadata, season_matches, season_stats, season_counted,
                   future_to_meta, database, pipeline_pc, summary_args,
                   match_counter, outside_pipeline>>

\* process_competition of season s raises: the match list could not be
\* fetched, or a match failed for good while others may have been processed.
SeasonRaises(s) ==
    /\ s \in DOMAIN season_state
    /\ season_state[s] = "running"
    /\ season_counted[s] = 0 \/ season_counted[s] < season_matches[s]
    /\ season_state' = [season_state EXCEPT ![s] = "raised"]
    /\ UNCHANGED <<tasks_metadata, season_matches, season_stats, season_counted,
                   future_to_meta, database, pipeline_pc, summary_args,
                   match_counter, outside_pipeline>>

\* A variant that lets the exception of a failed season through.
BuildNextPropagates(s) ==
    /\ pipeline_pc = "collect"
    /\ s \in future_to_meta
    /\ season_state[s] \in {"ok", "raised"}
    /\ future_to_meta' = future_to_meta \ {s}
    /\ IF season_state[s] = "ok"
       THEN /\ database' = Append(database, [meta |-> s, stats |-> season_stats[s]])
            /\ UNCHANGED pipeline_pc
       ELSE /\ pipeline_pc' = "raised"
            /\ UNCHANGED database
    /\ UNCHANGED <<tasks_metadata, season_matches, season_stats, season_state,
                   season_counted, summary_args, match_counter, outside_pipeline>>

\* for future in as_completed(future_to_meta): the body of the loop.
BuildNext(s) ==
    /\ pipeline_pc = "collect"
    /\ s \in future_to_meta
    /\ season_state[s] \in {"ok", "raised"}
    /\ future_to_meta' = future_to_meta \ {s}
    /\ database' = IF season_state[s] = "ok"
                   THEN Append(database, [meta |-> s, stats |-> season_stats[s]])
                   ELSE database
    /\ UNCHANGED <<tasks_metadata, season_matches, season_stats, season_state,
                   season_counted, pipeline_pc, summary_args, match_counter,
                   outside_pipeline>>

\* return database
BuildReturn ==
    /\ pipeline_pc = "collect"
    /\ future_to_meta = {}
    /\ pipeline_pc' = "built"
    /\ UNCHANGED <<tasks_metadata, season_matches, season_stats, season_state,
                   season_counted, future_to_meta, database, summary_args,
                   match_counter, outside_pipeline>>

\* if not granular_database: return 1
RunEmptyDatabase ==
    /\ pipeline_pc = "built"
    /\ database = << >>
    /\ pipeline_pc' = "exit1"
    /\ UNCHANGED <<tasks_metadata, season_matches, season_stats, season_state,
                   season_counted, future_to_meta, database, summary_args,
                   match_counter, outside_pipeline>>

\* print_summary(aggregate_statistics(granular_database), get_match_counter())
RunSummary ==
    /\ pipeline_pc = "built"
    /\ database # << >>
    /\ summary_args' = [positions |-> aggregate_statistics(database),
                        total_matches |-> match_counter]
    /\ pipeline_pc' = "summarized"
    /\ UNCHANGED <<tasks_metadata, season_matches, season_stats, season_state,
                   season_counted, future_to_meta, database, match_counter,
                   outside_pipeline>>

NextPipeline ==
    \/ RunNoSeasons
    \/ SubmitSeasons
    \/ \E s \in 1..MaxSeasons : SeasonMatchProcessed(s)
    \/ \E s \in 1..MaxSeasons : SeasonReturns(s)
    \/ \E s \in 1..MaxSeasons : SeasonRaises(s)
    \/ \E s \in 1..MaxSeasons : BuildNext(s)
    \/ BuildReturn
    \/ RunEmptyDatabase
    \/ RunSummary

SpecPipeline == InitPipeline /\ [][NextPipeline]_vars

\* -------------------------------------------------------------- _get_session
\* http_client._get_session called by the worker threads of the match pool:
\* the test of the global, the creation of the Session and the assignment of
\* the global are separate steps, with no lock around them.

MaxSessionCalls == 2

InitSession ==
    /\ OutsideSessionIdle
    /\ match_counter = 0
    /\ _session = 0
    /\ sessions_created = 0
    /\ session_pc = [t \in Threads |-> "idle"]
    /\ session_local = [t \in Threads |-> 0]
    /\ session_returned = [t \in Threads |-> << >>]

\* if _session is None:
SessionCheck(t) ==
    /\ session_pc[t] = "idle"
    /\ Len(session_returned[t]) < MaxSessionCalls
    /\ session_pc' = [session_pc EXCEPT ![t] = IF _session = 0 THEN "create" ELSE "return"]
    /\ UNCHANGED <<_session, sessions_created, session_local, session_returned,
                   outside_session>>

\* s = requests.Session(), the Retry, the adapter and the mount
SessionCreate(t) ==
    /\ session_pc[t] = "create"
    /\ sessions_created' = sessions_created + 1
    /\ session_local' = [session_local EXCEPT ![t] = sessions_created + 1]
    /\ session_pc' = [session_pc EXCEPT ![t] = "assign"]
    /\ UNCHANGED <<_session, session_returned, outside_session>>

\* _session = s
SessionAssign(t) ==
    /\ session_pc[t] = "assign"
    /\ _session' = session_local[t]
    /\ session_pc' = [session_pc EXCEPT ![t] = "return"]
    /\ UNCHANGED <<sessions_created, session_local, session_returned, outside_session>>

\* return _session
SessionReturn(t) ==
    /\ session_pc[t] = "return"
    /\ session_returned' = [session_returned EXCEPT ![t] = Append(@, _session)]
    /\ session_pc' = [session_pc EXCEPT ![t] = "idle"]
    /\ UNCHANGED <<_session, sessions_created, session_local, outside_session>>

NextSession ==
    \E t \in Threads :
        \/ SessionCheck(t)
        \/ SessionCreate(t)
        \/ SessionAssign(t)
        \/ SessionReturn(t)

SpecSession == InitSession /\ [][NextSession]_vars

\* ------------------------------------------- _filter_and_aggregate_database
\* streamlit_app._filter_and_aggregate_database: the stored per-season entries
\* summed again under a filter on year and competition.

MaxEntries == 2
MaxFilterYear == 3

FilterYears == 1..MaxFilterYear

\* A variant whose year range excludes end_year.
EntrySelectedBeforeEnd(entry, start, end, ids) ==
    /\ start <= entry.meta.year
    /\ entry.meta.year < end
    /\ entry.meta.competition_id \in ids

\* start_year <= meta["year"] <= end_year and meta["competition_id"] in selected_comp_ids
EntrySelected(entry, start, end, ids) ==
    /\ start <= entry.meta.year
    /\ entry.meta.year <= end
    /\ entry.meta.competition_id \in ids

\* The loop over the first n entries: <<aggregated_stats, processed_count>>.
RECURSIVE FilterLoop(_, _, _, _, _)
FilterLoop(db, n, start, end, ids) ==
    IF n = 0 THEN <<EmptyMap, 0>>
    ELSE LET before == FilterLoop(db, n - 1, start, end, ids)
         IN  IF EntrySelected(db[n], start, end, ids)
             THEN <<_aggregate_positions(before[1], db[n].stats), before[2] + 1>>
             ELSE before

_filter_and_aggregate_database(db, start, end, ids) ==
    FilterLoop(db, Len(db), start, end, ids)

EntryInputs ==
    [meta : [year : FilterYears, competition_id : {1, 2}],
     stats : SeasonStatsInputs \cup {EmptyMap}]

InitRefilter ==
    /\ OutsideRefilterIdle
    /\ match_counter = 0
    /\ stored_database \in UNION {[1..n -> EntryInputs] : n \in 0..MaxEntries}
    /\ filter_start_year \in FilterYears
    /\ filter_end_year \in FilterYears
    /\ selected_comp_ids \in {{}, {1}, {1, 2}}
    /\ aggregated_stats = EmptyMap
    /\ processed_count = 0
    /\ filter_pc = "call"

FilterAndAggregate ==
    /\ filter_pc = "call"
    /\ LET result == _filter_and_aggregate_database(
                         stored_database, filter_start_year, filter_end_year,
                         selected_comp_ids)
       IN  /\ aggregated_stats' = result[1]
           /\ processed_count' = result[2]
    /\ filter_pc' = "returned"
    /\ UNCHANGED <<stored_database, filter_start_year, filter_end_year,
                   selected_comp_ids, outside_refilter>>

NextRefilter == FilterAndAggregate

SpecRefilter == InitRefilter /\ [][NextRefilter]_vars

\* ------------------------------------------------------------------ claims

\* The phases of process_match in which the timelines are built.
Building == pc \in {"loop", "update"}
\* The phases after _finalize_process has returned.
Finalized == pc \in {"finalized", "aggregated", "done"}

\* C3: in every state reached by processing any prefix of any event sequence,
\* every tracked player's timeline is non-empty, holds at most one open
\* interval, and an open interval is the last element of its timeline.
C3_OneOpenIntervalLast ==
    \A p \in DOMAIN player_positions :
        LET tl == player_positions[p]
        IN  /\ Len(tl) >= 1
            /\ Cardinality({i \in DOMAIN tl : tl[i].end_time = None}) <= 1
            /\ \A i \in DOMAIN tl : tl[i].end_time = None => i = Len(tl)

\* C3 witness: while building, a player with two closed intervals followed by
\* the open one.
C3_Witness ==
    /\ Building
    /\ \E p \in DOMAIN player_positions :
          LET tl == player_positions[p]
          IN  /\ Len(tl) = 3
              /\ tl[1].end_time # None
              /\ tl[2].end_time # None
              /\ tl[3].end_time = None

\* ---- helpers of the claims

\* sum of f[x] over x in S
RECURSIVE SumFn(_, _)
SumFn(f, S) ==
    IF S = {} THEN 0
    ELSE LET x == CHOOSE y \in S : TRUE
         IN  f[x] + SumFn(f, S \ {x})

PassesOf(mp, pos) == IF pos \in DOMAIN mp THEN mp[pos].passes ELSE 0
MinutesOf(mp, pos) == IF pos \in DOMAIN mp THEN mp[pos].minutes ELSE 0

\* The intervals of all timelines, as <<player, index>>.
Slots(pp) == {s \in (DOMAIN pp) \X (1..(MaxEvents + MaxIntervals)) : s[2] <= Len(pp[s[1]])}
SlotsAt(pp, pos) == {s \in Slots(pp) : pp[s[1]][s[2]].position = pos}

\* The events that are passes of a tracked player.
TrackedPasses ==
    {i \in DOMAIN events :
        /\ events[i].type = "Pass"
        /\ events[i].player \in DOMAIN player_positions}

\* minute lies in the closed interval iv, half-open
Contains(iv, minute) ==
    iv.end_time # None /\ iv.start_time <= minute /\ minute < iv.end_time

\* The first interval of tl, in timeline order, that contains minute: {k} or {}.
FirstContaining(tl, minute) ==
    {k \in DOMAIN tl :
        /\ Contains(tl[k], minute)
        /\ \A j \in 1..(k - 1) : ~Contains(tl[j], minute)}

\* The passes the first-interval rule gives position pos.
PassesByRule(pos) ==
    Cardinality({i \in TrackedPasses :
        \E k \in FirstContaining(player_positions[events[i].player], GetMinute(events[i])) :
            player_positions[events[i].player][k].position = pos})

\* Every pass count is what the first-interval rule gives it.
FirstIntervalRule ==
    \A pos \in Positions : PassesOf(match_positions, pos) = PassesByRule(pos)

\* ---- the event list seen from a finished match

\* The timelines the event loop leaves after the first n events of the list
\* (before finalization).
RECURSIVE TimelinesAfter(_)
TimelinesAfter(n) ==
    IF n = 0 THEN EmptyMap
    ELSE LET event == events[n]
             before == TimelinesAfter(n - 1)
             dispatched ==
                IF event.type = "Starting XI" THEN _extract_starting_xi(event, before)
                ELSE IF event.type = "Substitution" THEN _handle_substitution(event, before)
                ELSE before
         IN  IF HasPlayer(event) THEN _update_player_positions(event, dispatched)
             ELSE dispatched

\* Event n substitutes the tracked player p out.
SubstitutesOut(n, p) ==
    /\ events[n].type = "Substitution"
    /\ events[n].player = p
    /\ p \in DOMAIN TimelinesAfter(n - 1)

\* Event n starts a new timeline for p: a lineup, or p as the replacement.
StartsTimeline(n, p) ==
    \/ events[n].type = "Starting XI" /\ p \in DOMAIN events[n].lineup
    \/ /\ events[n].type = "Substitution"
       /\ events[n].replacement = p
       /\ events[n].player \in DOMAIN TimelinesAfter(n - 1)

\* The events that substitute p out for good: p starts no timeline later.
FinalSubstitutionsOut(p) ==
    {n \in DOMAIN events :
        /\ SubstitutesOut(n, p)
        /\ \A j \in (n + 1)..Len(events) : ~StartsTimeline(j, p)}

\* The minutes of the list do not decrease (an absent minute reads as 0).
NonDecreasingMinutes ==
    \A i, j \in DOMAIN events : i < j => GetMinute(events[i]) <= GetMinute(events[j])

\* p is on the pitch at minute m: its timeline started at or before m, it was
\* not substituted out at or before m, and m is at most the match end time.
OnPitch(p, m) ==
    LET built == TimelinesAfter(Len(events))
    IN  /\ p \in DOMAIN built
        /\ built[p][1].start_time <= m
        /\ m <= MatchEndTime(events)
        /\ \/ Last(built[p]).end_time = None
           \/ m < Last(built[p]).end_time

\* The position p occupies at minute m: that of the latest interval started at
\* or before m.
Occupied(tl, m) ==
    LET k == CHOOSE j \in DOMAIN tl :
                /\ tl[j].start_time <= m
                /\ \A h \in (j + 1)..Len(tl) : tl[h].start_time > m
    IN  tl[k].position

\* The passes of players on the pitch at the pass's minute.
OnPitchPasses ==
    {i \in DOMAIN events :
        /\ events[i].type = "Pass"
        /\ HasPlayer(events[i])
        /\ OnPitch(events[i].player, GetMinute(events[i]))}

\* C1: against finalized timelines a pass at minute m of a tracked player adds
\* 1 to the position of the first interval, in timeline order, with
\* start_time <= m < end_time. In particular a pass at exactly a change minute
\* t (a later interval of the timeline, or a replacement's timeline, starts at
\* t) is counted for the new position, the interval starting at t, and never
\* for the old one, and a pass at t-1 is counted for the old position. The
\* particular case is stated for lists with non-decreasing minutes and players
\* on the pitch at the pass's minute, who were in the old position at t-1.
C1_PassCountedForFirstInterval ==
    pc \in {"aggregated", "done"} =>
        /\ FirstIntervalRule
        /\ NonDecreasingMinutes =>
             \A i \in OnPitchPasses :
                LET tl == player_positions[events[i].player]
                    m  == GetMinute(events[i])
                    starting == {k \in DOMAIN tl :
                                    tl[k].start_time = m /\ (k >= 2 \/ m > 0)}
                    new == {tl[k].position : k \in starting}
                IN  /\ starting # {} =>
                          /\ \E pos \in new : PassesOf(match_positions, pos) >= 1
                          /\ Cardinality(TrackedPasses) = 1 =>
                                \A pos \in Positions \ new :
                                    PassesOf(match_positions, pos) = 0
                    /\ \A k \in 2..Len(tl) :
                          (tl[k].start_time = m + 1 /\ tl[k - 1].start_time <= m) =>
                              PassesOf(match_positions, tl[k - 1].position) >= 1

\* C2: after process_match every Pass event of a player who is on the pitch at
\* the pass's minute m (m up to and including the match end time) has added 1
\* to the pass count of the position the player occupies at m; no such pass is
\* dropped.
C2_EveryOnPitchPassCounted ==
    pc \in {"aggregated", "done"} =>
        \A pos \in Positions :
            LET due == {i \in OnPitchPasses :
                           Occupied(player_positions[events[i].player],
                                    GetMinute(events[i])) = pos}
            IN  /\ PassesOf(match_positions, pos) >= Cardinality(due)
                /\ (TrackedPasses = OnPitchPasses) =>
                       PassesOf(match_positions, pos) = Cardinality(due)

\* start_time..end_time-1 of every timeline slot, summed: the timeline's length
Duration(pp, s) == pp[s[1]][s[2]].end_time - pp[s[1]][s[2]].start_time

\* C4: minutes conservation. For a list with non-decreasing minutes, after
\* finalization the durations of every timeline add up to the end_time of its
\* last interval minus the start_time of its first, the last end_time being the
\* substitution minute for a substituted-out player and the match end time
\* otherwise; the minutes of every position are these durations summed.
C4_MinutesConservation ==
    (Finalized /\ NonDecreasingMinutes) =>
        /\ \A p \in DOMAIN player_positions :
             LET tl == player_positions[p]
                 own == {s \in Slots(player_positions) : s[1] = p}
                 out == FinalSubstitutionsOut(p)
             IN  /\ SumFn([s \in own |-> Duration(player_positions, s)], own)
                        = Last(tl).end_time - tl[1].start_time
                 /\ Last(tl).end_time =
                        IF out # {} THEN events[SetMax(out)].minute
                        ELSE MatchEndTime(events)
        /\ \A pos \in Positions :
             LET at == SlotsAt(player_positions, pos)
             IN  MinutesOf(match_positions, pos)
                    = SumFn([s \in at |-> Duration(player_positions, s)], at)

\* The whole minutes k with start_time <= k < end_time.
WholeMinutes(iv) == Cardinality(iv.start_time..(iv.end_time - 1))

\* C5: for every event list, also with decreasing minutes and so with
\* intervals whose end_time is before their start_time, an interval contributes
\* max(0, end_time - start_time) minutes to its position, and every position's
\* minutes and passes in the result are non-negative.
C5_ClampedMinutes ==
    Finalized =>
        /\ \A pos \in Positions :
             LET at == SlotsAt(player_positions, pos)
             IN  MinutesOf(match_positions, pos)
                    = SumFn([s \in at |-> WholeMinutes(player_positions[s[1]][s[2]])], at)
        /\ \A pos \in DOMAIN match_positions :
             /\ pos \in Positions
             /\ match_positions[pos].minutes >= 0
             /\ match_positions[pos].passes >= 0

\* C5 witness: a finished match with an interval that ends before it starts,
\* whose position was played by nobody else and got 0 minutes.
C5_Witness ==
    /\ pc = "done"
    /\ \E s \in Slots(player_positions) :
          LET iv == player_positions[s[1]][s[2]]
          IN  /\ iv.end_time < iv.start_time
              /\ SlotsAt(player_positions, iv.position) = {s}
              /\ match_positions[iv.position].minutes = 0

\* C6: finalization takes the maximum minute over the events of a non-empty
\* list as the match end time, closes every still open last interval at it and
\* leaves closed intervals untouched; when it returns no interval is open.
C6_FinalizeClosesAtMaxMinute ==
    [][(pc = "loop" /\ pc' = "finalized") =>
        LET carried == {events[i].minute : i \in {j \in DOMAIN events : events[j].minute # NoMinute}}
        IN  /\ DOMAIN player_positions' = DOMAIN player_positions
            /\ \A p \in DOMAIN player_positions :
                 LET old == player_positions[p]
                     new == player_positions'[p]
                 IN  /\ Len(new) = Len(old)
                     /\ \A i \in DOMAIN old :
                          /\ new[i].position = old[i].position
                          /\ new[i].start_time = old[i].start_time
                          /\ new[i].end_time # None
                          /\ old[i].end_time # None => new[i].end_time = old[i].end_time
                          /\ (old[i].end_time = None /\ carried # {}) =>
                                /\ new[i].end_time \in carried
                                /\ \A m \in carried : m <= new[i].end_time
       ]_vars

\* C6 witness: the list's last event is not its latest; player 1, substituted
\* out at minute 1, keeps [0,1) and the replacement's open interval is closed at
\* the maximum, 2.
C6_Witness ==
    /\ pc = "finalized"
    /\ Len(events) = 3
    /\ events[2].type = "Substitution" /\ events[2].minute = 2
    /\ events[3].type = "Substitution" /\ events[3].minute = 1
    /\ DOMAIN player_positions = {1, 2}
    /\ Last(player_positions[1]).end_time = 1
    /\ Last(player_positions[2]).end_time = 2
    /\ Last(player_positions[2]).start_time = 1

\* C7: with an empty event list finalization uses 90 as the match end time: an
\* open interval is closed at 90 and contributes 90 - start_time minutes.
C7_EmptyListDefaultsTo90 ==
    [][(pc = "loop" /\ pc' = "finalized" /\ events = << >>) =>
        /\ \A p \in DOMAIN player_positions :
             \A i \in DOMAIN player_positions[p] :
                player_positions[p][i].end_time = None =>
                    player_positions'[p][i].end_time = 90
        /\ \A pos \in Positions :
             LET at == SlotsAt(player_positions, pos)
                 minutes(s) ==
                    LET iv == player_positions[s[1]][s[2]]
                    IN  IF iv.end_time = None THEN 90 - iv.start_time
                        ELSE WholeMinutes(iv)
             IN  MinutesOf(match_positions', pos) = SumFn([s \in at |-> minutes(s)], at)
       ]_vars

\* C7 witness: no events; player 1's interval open from minute 2 was closed at
\* 90 and gave RB 88 minutes.
C7_Witness ==
    /\ pc = "finalized"
    /\ events = << >>
    /\ DOMAIN player_positions = {1}
    /\ player_positions[1] = <<Interval("CB", 0, 2), Interval("RB", 2, 90)>>
    /\ match_positions["RB"].minutes = 88
    /\ match_positions["CB"].minutes = 2

\* C8: when the list is not empty and none of its events carries a minute,
\* finalization uses 90 as the match end time: a lineup player's interval
\* [0, open) is closed at 90 and contributes 90 minutes.
C8_NoMinuteFieldsDefaultsTo90 ==
    (Finalized /\ events # << >> /\ \A i \in DOMAIN events : events[i].minute = NoMinute) =>
        /\ \A p \in DOMAIN player_positions :
             /\ Last(player_positions[p]).start_time = 0
             /\ Last(player_positions[p]).end_time = 90
        /\ \A pos \in Positions :
             MinutesOf(match_positions, pos)
                = 90 * Cardinality(SlotsAt(player_positions, pos))

\* The step is the loop's handling of a Substitution that does not raise.
SubstitutionStep ==
    /\ pc = "loop"
    /\ Len(events') = Len(events) + 1
    /\ Last(events').type = "Substitution"
    /\ pc' # "raised"

\* C9: a Substitution at minute t whose player_out is tracked sets the
\* end_time of player_out's last interval to t and makes player_in's timeline
\* exactly one open interval {position of player_out's last interval, t, open},
\* whatever timeline player_in had before.
C9_SubstitutionHandsPositionOver ==
    [][(SubstitutionStep /\ Last(events').player \in DOMAIN player_positions) =>
        LET event == Last(events')
            out   == player_positions[event.player]
        IN  /\ player_positions'[event.player]
                  = [i \in DOMAIN out |->
                        IF i = Len(out)
                        THEN [position |-> out[i].position,
                              start_time |-> out[i].start_time,
                              end_time |-> event.minute]
                        ELSE out[i]]
            /\ event.replacement \in DOMAIN player_positions'
            /\ player_positions'[event.replacement]
                  = <<[position |-> out[Len(out)].position,
                       start_time |-> event.minute,
                       end_time |-> None]>>
       ]_vars

\* C9 witness: both players started, player 2 moved to RB at minute 1, then
\* player 1 (CB) is replaced by player 2 at minute 2: player 2's timeline is the
\* single open CB interval from minute 2.
C9_Witness ==
    /\ pc = "update"
    /\ Len(events) = 3
    /\ events[1].type = "Starting XI" /\ DOMAIN events[1].lineup = {1, 2}
    /\ Len(TimelinesAfter(2)[2]) = 2
    /\ events[3].type = "Substitution"
    /\ events[3].player = 1 /\ events[3].replacement = 2 /\ events[3].minute = 2
    /\ player_positions[1] = <<Interval("CB", 0, 2)>>
    /\ player_positions[2] = <<Interval("CB", 2, None)>>

\* The step consumes an event that starts a new timeline for p.
StartsTimelineStep(p) ==
    /\ pc = "loop"
    /\ Len(events') = Len(events) + 1
    /\ \/ Last(events').type = "Starting XI" /\ p \in DOMAIN Last(events').lineup
       \/ Last(events').type = "Substitution" /\ Last(events').replacement = p

\* C10: substitution-out is terminal. Once a Substitution at minute t has
\* closed player_out's timeline then, unless the player is later listed in a
\* Starting XI or named as a replacement, no event changes that timeline
\* (neither the position payload of the substitution event itself nor a later
\* event naming the player), and its last interval stays closed at t through
\* finalization. While the timelines are built a closed last interval is one a
\* substitution closed.
C10_SubstitutionOutIsTerminal ==
    [][\A p \in DOMAIN player_positions :
          (/\ Building
           /\ Last(player_positions[p]).end_time # None
           /\ pc' # "raised"
           /\ ~StartsTimelineStep(p)) =>
              /\ p \in DOMAIN player_positions'
              /\ player_positions'[p] = player_positions[p]
      ]_vars

\* The event the loop is consuming in this step.
Consumes(type) ==
    /\ pc = "loop"
    /\ events' # events
    /\ Last(events').type = type

\* The step that calls _update_player_positions for the event just consumed.
UpdateStep == pc = "update" /\ pc' # pc

\* C11: a Substitution event whose player_out has no tracked timeline leaves the
\* whole timeline map unchanged, in _handle_substitution and in the position
\* update that follows for the same event: no interval of any player is
\* modified and no timeline is created for player_in.
C11_UntrackedSubstitutionIsNoOp ==
    [][ /\ (Consumes("Substitution")
              /\ Last(events').player \notin DOMAIN player_positions)
            => player_positions' = player_positions
        /\ (UpdateStep /\ Last(events).type = "Substitution"
              /\ Last(events).player \notin DOMAIN player_positions)
            => player_positions' = player_positions
      ]_vars

\* A substitution of an untracked player by a tracked one has been handled.
C11_Witness ==
    /\ pc = "update"
    /\ Last(events).type = "Substitution"
    /\ Last(events).minute # NoMinute
    /\ Last(events).player \notin DOMAIN player_positions
    /\ Last(events).replacement \in DOMAIN player_positions

\* C12: an event at minute t with a player id and a position payload, for a
\* tracked player whose last interval has another position, sets that
\* interval's end_time to t and appends one open interval {new position, t};
\* the earlier intervals of the player and all other timelines are unchanged.
C12_PositionChangeClosesAndAppends ==
    [][ (/\ UpdateStep
         /\ Last(events).position # NoPosition
         /\ Last(events).minute # NoMinute
         /\ Last(events).player \in DOMAIN player_positions
         /\ Last(player_positions[Last(events).player]).position # Last(events).position)
        => LET e   == Last(events)
               old == player_positions[e.player]
               new == player_positions'[e.player]
               n   == Len(old)
           IN  /\ DOMAIN player_positions' = DOMAIN player_positions
               /\ Len(new) = n + 1
               /\ new[n] = [old[n] EXCEPT !.end_time = e.minute]
               /\ new[n + 1] = Interval(e.position, e.minute, None)
               /\ \A i \in 1..(n - 1) : new[i] = old[i]
               /\ \A q \in DOMAIN player_positions \ {e.player} :
                     player_positions'[q] = player_positions[q]
      ]_vars

\* A lineup player changed position at minute 1 while another player is tracked.
C12_Witness ==
    /\ pc = "loop"
    /\ Len(events) = 2
    /\ events[1].type = "Starting XI"
    /\ events[2].type = "Other"
    /\ events[2].minute = 1
    /\ Cardinality(DOMAIN player_positions) = 2
    /\ HasPlayer(events[2])
    /\ player_positions[events[2].player] =
          <<Interval(events[1].lineup[events[2].player], 0, 1),
            Interval(events[2].position, 1, None)>>

\* C13: position-change handling leaves the timeline map unchanged when the
\* event's position equals the position of the player's last interval, when
\* the player is untracked (no timeline is created), and when the event carries
\* no position payload.
C13_PositionUpdateNoOp ==
    [][ (/\ UpdateStep
         /\ \/ Last(events).position = NoPosition
            \/ Last(events).player \notin DOMAIN player_positions
            \/ Last(player_positions[Last(events).player]).position = Last(events).position)
        => player_positions' = player_positions
      ]_vars

\* A position-carrying event of an untracked player has been handled while
\* another player is tracked.
C13_Witness ==
    /\ pc = "loop"
    /\ events # << >>
    /\ Last(events).type = "Other"
    /\ HasPlayer(Last(events))
    /\ Last(events).position # NoPosition
    /\ Last(events).minute # NoMinute
    /\ Last(events).player \notin DOMAIN player_positions
    /\ player_positions # EmptyMap

\* C14: a Starting XI event sets the timeline of every player of its lineup to
\* exactly one open interval {lineup position, 0, open}, replacing any timeline
\* the player had, and leaves the timelines of players not listed unchanged.
C14_StartingXIResetsListedPlayers ==
    [][ Consumes("Starting XI")
        => LET lineup == Last(events').lineup
           IN  /\ DOMAIN player_positions' = (DOMAIN player_positions) \cup (DOMAIN lineup)
               /\ \A p \in DOMAIN lineup :
                     player_positions'[p] = <<Interval(lineup[p], 0, None)>>
               /\ \A p \in (DOMAIN player_positions) \ (DOMAIN lineup) :
                     player_positions'[p] = player_positions[p]
      ]_vars

\* A second Starting XI has replaced a two-interval timeline of a listed player
\* and kept the timeline of a player it does not list.
C14_Witness ==
    /\ pc = "loop"
    /\ Len(events) = 3
    /\ events[1].type = "Starting XI"
    /\ events[3].type = "Starting XI"
    /\ \E p \in DOMAIN events[3].lineup :
          /\ p \in DOMAIN events[1].lineup
          /\ events[2].type = "Other"
          /\ events[2].player = p
          /\ events[2].minute # NoMinute
          /\ events[2].position \notin {NoPosition, events[1].lineup[p]}
          /\ player_positions[p] = <<Interval(events[3].lineup[p], 0, None)>>
    /\ \E q \in DOMAIN player_positions : q \notin DOMAIN events[3].lineup

\* A step of the event loop on an event that is neither a Starting XI nor a
\* Substitution: its consumption, or the position update that follows.
PassOrOtherStep ==
    /\ Building
    /\ pc' \in {"loop", "update", "raised"}
    /\ Last(events').type \notin {"Starting XI", "Substitution"}

\* C15 as stated: processing a Pass event, or an event of any type other than
\* Starting XI and Substitution, during the event loop leaves every player's
\* timeline unchanged.
C15_PassAndOtherNeverMutate ==
    [][ PassOrOtherStep => player_positions' = player_positions ]_vars

\* C15 (amended): such an event leaves every timeline unchanged unless it
\* carries a player id and a position payload that differs from the position
\* of that tracked player's last interval; then only that player's timeline
\* changes, by one appended open interval at the event's minute. The stats
\* mapping is not touched during the loop: passes take effect afterwards only.
C15_PassAndOtherMutateOnlyByPosition ==
    [][ PassOrOtherStep
        => /\ match_positions' = match_positions
           /\ \/ player_positions' = player_positions
              \/ LET e == Last(events)
                 IN  /\ UpdateStep
                     /\ HasPlayer(e)
                     /\ e.position # NoPosition
                     /\ e.player \in DOMAIN player_positions
                     /\ Last(player_positions[e.player]).position # e.position
                     /\ DOMAIN player_positions' = DOMAIN player_positions
                     /\ Len(player_positions'[e.player]) = Len(player_positions[e.player]) + 1
                     /\ Last(player_positions'[e.player]) = Interval(e.position, e.minute, None)
                     /\ \A q \in DOMAIN player_positions \ {e.player} :
                           player_positions'[q] = player_positions[q]
      ]_vars

\* A Pass event with a position payload has moved a lineup player.
C15_Witness ==
    /\ pc = "loop"
    /\ Len(events) = 2
    /\ events[1].type = "Starting XI"
    /\ events[2].type = "Pass"
    /\ HasPlayer(events[2])
    /\ events[2].minute = 1
    /\ events[2].player \in DOMAIN player_positions
    /\ Len(player_positions[events[2].player]) = 2
    /\ Last(player_positions[events[2].player]) = Interval(events[2].position, 1, None)

NoStartingXI == \A i \in DOMAIN events : events[i].type # "Starting XI"

\* C16: a match whose event list contains no Starting XI event yields an empty
\* timeline map and an empty stats mapping (no position key at all), whatever
\* Pass, Substitution, position-carrying and other events it contains, and the
\* match still completes (nothing is raised) and is counted.
C16_NoStartingXIGivesEmptyStats ==
    NoStartingXI =>
        /\ player_positions = EmptyMap
        /\ match_positions = EmptyMap
        /\ pc # "raised"
        /\ pc = "done" => match_counter = 1

\* The event with its minute defaulted, event.get("minute", 0).
WithDefaultMinute(event) == [event EXCEPT !.minute = GetMinute(event)]

\* C17: an absent minute defaults to 0 wherever the minute is read: a
\* Substitution event and a position-carrying event without a minute field are
\* processed as if their minute were 0, without raising.
C17_AbsentMinuteDefaultsToZero ==
    [][ /\ (Consumes("Substitution") /\ Last(events').minute = NoMinute)
            => /\ pc' # "raised"
               /\ player_positions' =
                     _handle_substitution(WithDefaultMinute(Last(events')), player_positions)
        /\ (UpdateStep /\ Last(events).minute = NoMinute)
            => /\ pc' # "raised"
               /\ player_positions' =
                     _update_player_positions(WithDefaultMinute(Last(events)), player_positions)
      ]_vars

\* The events of the list that are passes of a tracked player, in list order.
TrackedPassEvents ==
    SelectSeq(events, LAMBDA e : e.type = "Pass" /\ e.player \in DOMAIN player_positions)

TotalPasses(mp) == SumFn([pos \in Positions |-> PassesOf(mp, pos)], Positions)

\* C18: pass counts are changed only by Pass events of a tracked player:
\* _aggregate_pass_data raises nothing, adds at most one pass per such event,
\* and gives every position the count it gets from those events alone (events
\* of other types, passes without a player and passes of untracked players
\* change no count).
C18_OnlyTrackedPassesCount ==
    [][ pc = "finalized"
        => /\ pc' = "aggregated"
           /\ TotalPasses(match_positions') - TotalPasses(match_positions)
                 <= Len(TrackedPassEvents)
           /\ \A pos \in Positions :
                 PassesOf(match_positions', pos) =
                    PassesOf(_aggregate_pass_data(TrackedPassEvents, match_positions,
                                                  player_positions), pos)
      ]_vars

\* Attribution has run over an event of another type by a tracked player whose
\* minute lies in one of the player's intervals, and over a pass without a
\* tracked player; no pass is counted.
C18_Witness ==
    /\ pc = "aggregated"
    /\ \E i \in DOMAIN events :
          /\ events[i].type \in {"Other", "Substitution"}
          /\ events[i].player \in DOMAIN player_positions
          /\ FindInterval(player_positions[events[i].player], 1, GetMinute(events[i])) # 0
    /\ \E i \in DOMAIN events :
          /\ events[i].type = "Pass"
          /\ events[i].player \notin DOMAIN player_positions
    /\ \A pos \in Positions : PassesOf(match_positions, pos) = 0
    /\ match_positions # EmptyMap

\* C19: for event lists with well-shaped payloads process_match never raises;
\* it completes with a stats mapping and increments the match counter.
C19_RecoverableNeverAborts ==
    /\ pc # "raised"
    /\ pc = "done" =>
          /\ match_counter = 1
          /\ DOMAIN match_positions \subseteq Positions
          /\ \A pos \in DOMAIN match_positions :
                match_positions[pos].passes \in Nat /\ match_positions[pos].minutes \in Nat

\* Elementwise addition over the union of the position keys.
ElementwiseSum(stats) ==
    [pos \in UNION {DOMAIN stats[i] : i \in DOMAIN stats} |->
        [passes  |-> SumFn([i \in DOMAIN stats |-> PassesOf(stats[i], pos)], DOMAIN stats),
         minutes |-> SumFn([i \in DOMAIN stats |-> MinutesOf(stats[i], pos)], DOMAIN stats)]]

SameStats(a, b) ==
    /\ DOMAIN a = DOMAIN b
    /\ \A pos \in DOMAIN a : a[pos] = b[pos]

\* C20: combining stats by _aggregate_positions is elementwise addition of
\* passes and minutes over the union of the position keys, and is associative
\* and commutative: in whatever order and grouping the stats mappings are
\* accumulated into an empty total, what is accumulated so far together with
\* what is still to be added sums to the elementwise sum of all of them, so the
\* final total is that sum.
C20_CombineIsElementwiseSum ==
    pc = "combine" =>
        /\ SameStats(ElementwiseSum(<<competition_positions>> \o partials),
                     ElementwiseSum(match_stats))
        /\ partials = << >> =>
              SameStats(competition_positions, ElementwiseSum(match_stats))

\* Three stats mappings with different key sets, one position in all of them,
\* have been accumulated.
C20_Witness ==
    /\ pc = "combine"
    /\ partials = << >>
    /\ Len(match_stats) = 3
    /\ DOMAIN match_stats[1] = {"CB"}
    /\ DOMAIN match_stats[2] = {"RB"}
    /\ DOMAIN match_stats[3] = {"CB", "RB"}
    /\ match_stats[1]["CB"] = [passes |-> 1, minutes |-> 2]
    /\ match_stats[2]["RB"] = [passes |-> 2, minutes |-> 1]
    /\ match_stats[3]["CB"] = [passes |-> 2, minutes |-> 1]
    /\ competition_positions["CB"] = [passes |-> 3, minutes |-> 3]

\* Every non-last interval is closed and ends where the next one starts.
Contiguous(pp) ==
    \A p \in DOMAIN pp :
        \A i \in 1..(Len(pp[p]) - 1) :
            /\ pp[p][i].end_time # None
            /\ pp[p][i].end_time = pp[p][i + 1].start_time

\* A step writes nothing of an existing timeline but the end_time of its last
\* interval (and may append one interval), unless a lineup or a substitution
\* gives the player a new timeline.
OnlyLastEndTimeWritten ==
    \A p \in (DOMAIN player_positions) \cap (DOMAIN player_positions') :
        LET old == player_positions[p]
            new == player_positions'[p]
            n   == Len(old)
        IN  \/ new = old
            \/ /\ Consumes("Starting XI") \/ Consumes("Substitution")
               /\ Len(new) = 1
               /\ new[1].end_time = None
            \/ /\ Len(new) \in {n, n + 1}
               /\ \A i \in 1..(n - 1) : new[i] = old[i]
               /\ new[n] = [old[n] EXCEPT !.end_time = new[n].end_time]

\* C28: timelines are gap-free by construction, for every event sequence (also
\* with non-monotonic minutes): every non-last interval of a timeline is closed
\* and its end_time equals the start_time of the next interval, and only the
\* last interval's end_time is ever written.
C28_GapFreeByConstruction ==
    [][ Contiguous(player_positions') /\ OnlyLastEndTimeWritten ]_vars

\* A three-interval timeline built from minutes that go back in time.
C28_Witness ==
    /\ Building
    /\ \E p \in DOMAIN player_positions :
          LET tl == player_positions[p]
          IN  /\ Len(tl) = 3
              /\ tl[2].start_time = 2
              /\ tl[2].end_time = 1
              /\ tl[3].start_time = 1

\* C29: if the events' minutes are non-negative and non-decreasing in source
\* order, then after finalization every timeline is ordered by start_time
\* ascending and every interval has end_time >= start_time, so the clamp to 0
\* is never exercised.
C29_OrderedWhenMinutesNonDecreasing ==
    (Finalized /\ NonDecreasingMinutes) =>
        \A p \in DOMAIN player_positions :
            LET tl == player_positions[p]
            IN  /\ \A i, j \in DOMAIN tl : i < j => tl[i].start_time <= tl[j].start_time
                /\ \A i \in DOMAIN tl :
                      /\ tl[i].end_time >= tl[i].start_time
                      /\ MinutesPlayed(tl[i]) = tl[i].end_time - tl[i].start_time

\* A finished match with non-decreasing minutes and a player who held three
\* positions from minutes 0, 1 and 2.
C29_Witness ==
    /\ pc = "done"
    /\ NonDecreasingMinutes
    /\ \E p \in DOMAIN player_positions :
          LET tl == player_positions[p]
          IN  /\ Len(tl) = 3
              /\ tl[1].start_time = 0
              /\ tl[2].start_time = 1
              /\ tl[3].start_time = 2

NoOpenInterval(pp) ==
    \A p \in DOMAIN pp : \A i \in DOMAIN pp[p] : pp[p][i].end_time # None

Incremented == {t \in Threads : thread_pc[t] \in {"unlock", "returned"}}
Returned == {t \in Threads : thread_pc[t] = "returned"}
Ended == {t \in Threads : thread_pc[t] \in {"returned", "raised"}}

\* C21: the match counter is incremented by exactly 1 per completed
\* process_match call and by nothing else: under any interleaving of concurrent
\* calls it always equals its value before the calls plus the number of calls
\* that got past their increment, so once all calls have ended it has grown by
\* the number of calls that returned a result; a call that raised did not
\* increment it.
C21_CounterCountsReturnedCalls ==
    Threads \subseteq DOMAIN thread_pc =>
        /\ match_counter = counter_before + Cardinality(Incremented)
        /\ Ended = Threads => match_counter = counter_before + Cardinality(Returned)

\* Two calls have both returned after being inside process_match together, a
\* counter that started at 1 stands at 3.
C21_Witness ==
    /\ Threads \subseteq DOMAIN thread_pc
    /\ Returned = Threads
    /\ counter_before = 1
    /\ match_counter = 3

\* The timelines the event loop leaves for the list evs after n events.
RECURSIVE Replay(_, _)
Replay(evs, n) ==
    IF n = 0 THEN EmptyMap ELSE ApplyEvent(evs[n], Replay(evs, n - 1))

\* The stats of a call that processes evs with nothing else going on.
StatsAlone(evs) ==
    LET built == Replay(evs, Len(evs))
    IN  _aggregate_pass_data(evs, _finalize_process_stats(built, EmptyMap, evs),
                             _finalize_process_timelines(built, evs))

\* The calls whose stats are complete.
HasStats == {t \in Threads : thread_pc[t] \in {"lock", "load", "store", "unlock", "returned"}}

\* C22: the stats returned by process_match are a function of the match's event
\* list only: whatever the counter was before and whatever another thread is
\* processing at the same time, a call's stats are those of the list processed
\* alone, so two calls on the same list return equal stats.
C22_StatsDependOnEventListOnly ==
    Threads \subseteq DOMAIN thread_pc =>
        /\ \A t \in HasStats :
              SameStats(thread_match_positions[t], StatsAlone(thread_events[t]))
        /\ \A t, u \in HasStats :
              thread_events[t] = thread_events[u]
                  => thread_match_positions[t] = thread_match_positions[u]

\* Two calls on the same list, with a position change and a counted pass, have
\* returned equal, non-trivial stats while the counter started at 1.
C22_Witness ==
    /\ Threads \subseteq DOMAIN thread_pc
    /\ Returned = Threads
    /\ counter_before = 1
    /\ thread_events[1] = thread_events[2]
    /\ thread_match_positions[1] = thread_match_positions[2]
    /\ PassesOf(thread_match_positions[1], "CB") = 1
    /\ MinutesOf(thread_match_positions[1], "CB") = 1

\* C23: when process_competition returns, its result is the elementwise sum of
\* the stats of every match of the competition, each contributing exactly once,
\* whatever failed and was retried and in whatever order the futures completed;
\* with no matches the result is empty.
C23_CompetitionIsSumOfMatches ==
    drain_pc = "returned" =>
        /\ SameStats(competition_positions, ElementwiseSum(match_stats))
        /\ match_stats = << >> => competition_positions = EmptyMap
        /\ \A m \in DOMAIN match_stats :
              Cardinality({f \in DOMAIN future_match :
                              future_match[f] = m /\ future_state[f] = "yielded"})
                 = GetAttempts(attempts, m) + 1

\* A competition of two matches with a common position has returned after one
\* retry of match 1 and two retries of match 2.
C23_Witness ==
    /\ drain_pc = "returned"
    /\ Len(match_stats) = 2
    /\ "CB" \in DOMAIN match_stats[1]
    /\ "CB" \in DOMAIN match_stats[2]
    /\ GetAttempts(attempts, 1) = 1
    /\ GetAttempts(attempts, 2) = 2

\* The number of times match m has been submitted for execution.
Executions(m) == Cardinality({f \in DOMAIN future_match : future_match[f] = m})

\* C24: when processing a match raises ValueError, KeyError, TypeError or
\* ConnectionError, the match is resubmitted and its retry counter incremented
\* as long as the counter is below MAX_MATCH_RETRIES; the counter never exceeds
\* MAX_MATCH_RETRIES, a match is executed at most MAX_MATCH_RETRIES + 1 times,
\* and a failure with the budget used up raises RuntimeError "Failed to process
\* match ..." without submitting anything.
C24_RetryBudget ==
    [][ /\ \A m \in DOMAIN match_stats :
              /\ GetAttempts(attempts', m) <= MAX_MATCH_RETRIES
              /\ Cardinality({f \in DOMAIN future_match' : future_match'[f] = m})
                    <= MAX_MATCH_RETRIES + 1
        /\ \A f \in batch \ batch' :
              future_state[f] \in RetryableErrors =>
                 LET m == future_match[f]
                 IN  IF GetAttempts(attempts, m) < MAX_MATCH_RETRIES
                     THEN /\ GetAttempts(attempts', m) = GetAttempts(attempts, m) + 1
                          /\ future_match' = Append(future_match, m)
                          /\ Last(future_state') = "running"
                          /\ futures' = (futures \ {f}) \cup {Len(future_match')}
                          /\ drain_pc' = "for"
                     ELSE /\ drain_pc' = "raised"
                          /\ drain_error' = "RuntimeError: Failed to process match"
                          /\ future_match' = future_match
                          /\ attempts' = attempts
      ]_vars

\* A match has failed with its budget used up: three retries, four executions,
\* RuntimeError raised.
C24_Witness ==
    /\ drain_pc = "raised"
    /\ drain_error = "RuntimeError: Failed to process match"
    /\ \E m \in DOMAIN match_stats :
          /\ GetAttempts(attempts, m) = MAX_MATCH_RETRIES
          /\ Executions(m) = MAX_MATCH_RETRIES + 1

\* C25: get_json(url, max_attempts=n) issues its requests one after another,
\* at most n of them; it returns the parsed JSON of the first successful
\* attempt and issues no request after it; when all n attempts fail with
\* ChunkedEncodingError, ConnectionError, ReadTimeout or HTTPError it raises
\* RuntimeError "HTTP GET failed after n attempts" whose cause is the exception
\* of the last attempt.
AllRetryable(rs) == \A i \in DOMAIN rs : rs[i][1] = "raises" /\ rs[i][2] \in RetryableHttpErrors

NamesYearOfRange(name) ==
    \E Y \in start_year..end_year :
        \/ name = str(Y) \o <<"/">> \o str(Y + 1)
        \/ name = str(Y)

Selected(comp) ==
    comp.competition_id \in target_comp_ids /\ NamesYearOfRange(comp.season_name)

PairOf(comp) == <<comp.competition_id, comp.season_id>>

\* C26: get_competition_seasons(start_year, end_year, ids) returns, in the
\* order of the fetched list, exactly the (competition_id, season_id) pairs of
\* the entries whose competition_id is in ids and whose season_name is "Y/Y+1"
\* or "Y" for a year Y with start_year <= Y <= end_year; the list is empty when
\* nothing matches or start_year > end_year; a fetch error propagates.
C26_SeasonsFilter ==
    /\ seasons_pc = "returned" =>
          /\ LET chosen == SelectSeq(competitions, Selected)
             IN  competition_seasons = [i \in DOMAIN chosen |-> PairOf(chosen[i])]
          /\ start_year > end_year => competition_seasons = << >>
          /\ (\A i \in DOMAIN competitions : ~Selected(competitions[i]))
                => competition_seasons = << >>
          /\ seasons_error = ""
    /\ seasons_pc = "raised" =>
          /\ seasons_error = "RuntimeError"
          /\ competition_seasons = << >>

\* Two entries of the list were selected, one by "9/10" and one by the end
\* year alone, and returned in the order of the list.
C26_Witness ==
    /\ seasons_pc = "returned"
    /\ Len(competition_seasons) = 2
    /\ competitions[1].season_name = <<"9", "/", "1", "0">>
    /\ competitions[2].season_name = str(end_year)
    /\ competitions[1].season_id # competitions[2].season_id
    /\ start_year < end_year

\* value is the quotient passes / minutes.
IsQuotient(value, passes, minutes) ==
    value[2] > 0 /\ value[1] * minutes = passes * value[2]

\* C27: calculate_average_passes returns exactly one (position, value) entry
\* per input position, value being passes divided by minutes when minutes > 0
\* and 0 when minutes is 0; the entries are ordered by value descending; an
\* empty input gives an empty list.
C27_AveragePerPositionSorted ==
    average_pc = "returned" =>
        /\ Len(summary) = Len(positions_data)
        /\ \A i \in DOMAIN positions_data :
              \E j \in DOMAIN summary :
                 /\ summary[j][1] = positions_data[i].position
                 /\ \A k \in DOMAIN summary : summary[k][1] = summary[j][1] => k = j
                 /\ IF positions_data[i].minutes > 0
                    THEN IsQuotient(summary[j][2], positions_data[i].passes,
                                    positions_data[i].minutes)
                    ELSE summary[j][2][1] = 0
        /\ \A j \in 1..(Len(summary) - 1) :
              ~LessThan(summary[j][2], summary[j + 1][2])
        /\ positions_data = << >> => summary = << >>

\* Three positions given in ascending order of their quotients, one without
\* minutes, have been returned in the opposite order.
C27_Witness ==
    /\ average_pc = "returned"
    /\ Len(positions_data) = 3
    /\ positions_data[1].minutes = 0 /\ positions_data[1].passes > 0
    /\ positions_data[2].passes = 1 /\ positions_data[2].minutes = 2
    /\ positions_data[3].passes = 2 /\ positions_data[3].minutes = 1
    /\ summary[1][1] = positions_data[3].position
    /\ summary[3][1] = positions_data[1].position

\* The step of process_match that attributes the passes.
AttributionStep == pc = "finalized" /\ pc' = "aggregated"

\* C31: after finalization the timelines are read-only: pass attribution
\* modifies no interval of any timeline and no position's minutes total; all it
\* changes is the passes count of positions that occur in some interval.
C31_AttributionOnlyWritesPasses ==
    [][ AttributionStep =>
          /\ player_positions' = player_positions
          /\ events' = events
          /\ match_counter' = match_counter
          /\ DOMAIN match_positions' = DOMAIN match_positions
          /\ \A pos \in DOMAIN match_positions' :
                /\ match_positions'[pos].minutes = match_positions[pos].minutes
                /\ match_positions'[pos].passes >= match_positions[pos].passes
                /\ match_positions'[pos].passes # match_positions[pos].passes
                      => SlotsAt(player_positions, pos) # {}
      ]_vars

\* Attribution has counted a pass for one position and left another position,
\* which has minutes, without passes.
C31_Witness ==
    /\ pc = "aggregated"
    /\ \E pos, other \in DOMAIN match_positions :
          /\ match_positions[pos].passes > 0
          /\ match_positions[other].passes = 0
          /\ match_positions[other].minutes > 0

\* C32: when the fetch of a match's event list fails (get_json has used up its
\* attempts and raised RuntimeError, which process_match lets through), the
\* competition processor retries that match, up to MAX_MATCH_RETRIES times,
\* before giving up on it.
C32_FetchFailureIsRetried ==
    [][ \A f \in batch \ batch' :
          future_state[f] = "RuntimeError" =>
             LET m == future_match[f]
             IN  IF GetAttempts(attempts, m) < MAX_MATCH_RETRIES
                 THEN /\ GetAttempts(attempts', m) = GetAttempts(attempts, m) + 1
                      /\ future_match' = Append(future_match, m)
                      /\ drain_pc' = "for"
                 ELSE drain_pc' = "raised"
      ]_vars

\* C33: when a match has used up its retry budget and fails again, the drain
\* loop stops and process_competition raises RuntimeError: it never returns an
\* aggregate afterwards, although other matches of the competition were
\* processed and stay counted by the match counter.
C33_ExhaustedMatchAbortsCompetition ==
    [][ /\ \A f \in batch \ batch' :
              (/\ future_state[f] \in RetryableErrors
               /\ GetAttempts(attempts, future_match[f]) = MAX_MATCH_RETRIES)
                 => /\ drain_pc' = "raised"
                    /\ drain_error' = "RuntimeError: Failed to process match"
        /\ drain_pc = "raised" =>
              /\ drain_pc' = "raised"
              /\ drain_error' = drain_error
              /\ <<futures', batch', attempts'>> = <<futures, batch, attempts>>
              /\ competition_positions' = competition_positions
        /\ match_counter' >= match_counter
      ]_vars

\* One match of two has used up its budget and the competition has raised,
\* after the other match was processed, counted and aggregated.
C33_Witness ==
    /\ drain_pc = "raised"
    /\ drain_error = "RuntimeError: Failed to process match"
    /\ Len(match_stats) = 2
    /\ GetAttempts(attempts, 1) = MAX_MATCH_RETRIES
    /\ GetAttempts(attempts, 2) = 0
    /\ match_counter = 1
    /\ competition_positions = match_stats[2]
    /\ competition_positions # EmptyMap

\* C34: if every submitted process_match call eventually completes, the drain
\* loop terminates whatever fails: the call eventually returns, with the
\* futures map empty, or raises; a future resubmitted while a batch is being
\* iterated stays in the futures map until a later pass takes it.
C34_DrainLoopTerminates ==
    /\ <>(drain_pc \in {"returned", "raised"})
    /\ [](drain_pc = "returned" => futures = {} /\ batch = {})
    /\ [](\A f \in DOMAIN future_match :
             f \in futures <=> future_state[f] # "yielded")
    /\ [](batch \subseteq futures)

\* The call has returned after two passes over a competition of two matches:
\* a retry submitted during the first pass was taken by the second.
C34_Witness ==
    /\ drain_pc = "returned"
    /\ futures = {}
    /\ Len(match_stats) = 2
    /\ Len(future_match) = 3
    /\ future_match[3] = 1
    /\ \A f \in DOMAIN future_state : future_state[f] = "yielded"

\* The seasons whose entries are in the database.
SeasonsIn(db) == {db[i].meta : i \in DOMAIN db}

\* C35: at the end of run, the total matches count passed to print_summary
\* equals the number of matches whose statistics are in the aggregated stats
\* being summarized, whatever matches and seasons failed.
C35_SummaryCountsAggregatedMatches ==
    pipeline_pc = "summarized" =>
        /\ summary_args.positions = aggregate_statistics(database)
        /\ summary_args.total_matches =
              SumFn([s \in SeasonsIn(database) |-> season_matches[s]], SeasonsIn(database))

\* C37: build_granular_database isolates season failures: a season whose
\* process_competition raises is left out, the returned database has exactly
\* one entry, metadata with stats, for each season that succeeded, whatever
\* the completion order, and the function never raises for a failed season.
C37_BuildIsolatesSeasonFailures ==
    /\ pipeline_pc # "raised"
    /\ \A i \in DOMAIN database :
          /\ season_state[database[i].meta] = "ok"
          /\ database[i].stats = season_stats[database[i].meta]
          /\ \A j \in DOMAIN database : database[j].meta = database[i].meta => j = i
    /\ pipeline_pc \in {"built", "summarized"} =>
          SeasonsIn(database) = {s \in DOMAIN season_state : season_state[s] = "ok"}

\* Season 2 completed first and succeeded, season 1 raised after one of its
\* two matches was processed: the database returned holds season 2 only.
C37_Witness ==
    /\ pipeline_pc = "built"
    /\ Len(tasks_metadata) = 2
    /\ season_state[1] = "raised"
    /\ season_counted[1] = 1
    /\ season_state[2] = "ok"
    /\ database = <<[meta |-> 2, stats |-> season_stats[2]]>>
    /\ season_stats[2] # EmptyMap

InsideFilter ==
    {i \in DOMAIN stored_database :
        /\ stored_database[i].meta.year \in filter_start_year..filter_end_year
        /\ stored_database[i].meta.competition_id \in selected_comp_ids}

\* C38: _filter_and_aggregate_database returns the elementwise sum of the
\* stats of exactly the entries whose year lies in [start_year, end_year] and
\* whose competition_id is selected, with the count of those entries; entries
\* outside the filter contribute nothing and the order of the entries does not
\* matter.
C38_RefilterIsSumOfSelected ==
    filter_pc = "returned" =>
        /\ processed_count = Cardinality(InsideFilter)
        /\ DOMAIN aggregated_stats =
              UNION {DOMAIN stored_database[i].stats : i \in InsideFilter}
        /\ \A pos \in DOMAIN aggregated_stats :
              /\ aggregated_stats[pos].passes =
                    SumFn([i \in InsideFilter |-> PassesOf(stored_database[i].stats, pos)],
                          InsideFilter)
              /\ aggregated_stats[pos].minutes =
                    SumFn([i \in InsideFilter |-> MinutesOf(stored_database[i].stats, pos)],
                          InsideFilter)
        /\ \A order \in Permutations(DOMAIN stored_database) :
              _filter_and_aggregate_database(
                  [i \in DOMAIN stored_database |-> stored_database[order[i]]],
                  filter_start_year, filter_end_year, selected_comp_ids)
                 = <<aggregated_stats, processed_count>>

\* Of two entries with stats for the same position, the first is inside the
\* filter, at its last year, and the second is of a competition not selected.
C38_Witness ==
    /\ filter_pc = "returned"
    /\ Len(stored_database) = 2
    /\ filter_start_year < filter_end_year
    /\ stored_database[1].meta.year = filter_end_year
    /\ stored_database[1].meta.competition_id \in selected_comp_ids
    /\ stored_database[2].meta.competition_id \notin selected_comp_ids
    /\ "CB" \in DOMAIN stored_database[2].stats
    /\ processed_count = 1
    /\ aggregated_stats = stored_database[1].stats
    /\ aggregated_stats # EmptyMap

====
